---- MODULE Spec2Model ----
(***************************************************************************)
(* A model of the watchman policy gate: the hook evaluator                 *)
(* (internal/hook/evaluator.go), the workspace and scope rules, the        *)
(* protected-path oracle and the shell command parser.                     *)
(*                                                                         *)
(* Go strings that the code takes apart (paths, patterns, commands) are    *)
(* sequences of one-character strings, so that prefix tests, cleaning and  *)
(* tokenizing are computed character by character as the code does.        *)
(* Strings the code only compares or concatenates (tool names, fixed       *)
(* reason texts, hook names) are TLA+ strings.                             *)
(***************************************************************************)
EXTENDS Integers, Sequences, FiniteSets, TLC

(***************************************************************************)
(* strings, path/filepath                                                  *)
(***************************************************************************)

Separator == "/"

HasPrefix(s, p) == Len(s) >= Len(p) /\ SubSeq(s, 1, Len(p)) = p

HasSuffix(s, p) == Len(s) >= Len(p) /\ SubSeq(s, Len(s) - Len(p) + 1, Len(s)) = p

TrimSuffix(s, p) == IF HasSuffix(s, p) THEN SubSeq(s, 1, Len(s) - Len(p)) ELSE s

TrimPrefix(s, p) == IF HasPrefix(s, p) THEN SubSeq(s, Len(p) + 1, Len(s)) ELSE s

Contains(s, sub) ==
    \E i \in 0..(Len(s) - Len(sub)) : SubSeq(s, i + 1, i + Len(sub)) = sub

RECURSIVE IndexFrom(_, _, _)
IndexFrom(s, sub, i) ==
    IF i + Len(sub) > Len(s) THEN -1
    ELSE IF SubSeq(s, i + 1, i + Len(sub)) = sub THEN i
    ELSE IndexFrom(s, sub, i + 1)

\* strings.Index: the first position (0-based) of sub in s, or -1
Index(s, sub) == IndexFrom(s, sub, 0)

RECURSIVE SplitOnFrom(_, _, _, _, _)
SplitOnFrom(s, sep, i, parts, current) ==
    IF i > Len(s) THEN Append(parts, current)
    ELSE IF s[i] = sep THEN SplitOnFrom(s, sep, i + 1, Append(parts, current), <<>>)
    ELSE SplitOnFrom(s, sep, i + 1, parts, Append(current, s[i]))

\* strings.Split(s, sep) for a one-character separator
SplitOn(s, sep) == SplitOnFrom(s, sep, 1, <<>>, <<>>)

\* strings.Join(parts, sep) for a one-character separator
RECURSIVE JoinWith(_, _)
JoinWith(parts, sep) ==
    IF parts = <<>> THEN <<>>
    ELSE IF Len(parts) = 1 THEN parts[1]
    ELSE parts[1] \o <<sep>> \o JoinWith(Tail(parts), sep)

IsAbs(p) == HasPrefix(p, <<Separator>>)

\* The component stack filepath.Clean builds: empty and "." components are
\* dropped, ".." removes the last kept component when there is one that is
\* not itself "..", is kept in a relative path and dropped in a rooted one.
RECURSIVE CleanComponents(_, _, _)
CleanComponents(comps, out, rooted) ==
    IF comps = <<>> THEN out
    ELSE LET c == Head(comps)
             rest == Tail(comps)
         IN  IF c = <<>> \/ c = <<".">>
             THEN CleanComponents(rest, out, rooted)
             ELSE IF c = <<".", ".">>
             THEN IF out # <<>> /\ out[Len(out)] # <<".", ".">>
                  THEN CleanComponents(rest, SubSeq(out, 1, Len(out) - 1), rooted)
                  ELSE IF ~rooted
                  THEN CleanComponents(rest, Append(out, c), rooted)
                  ELSE CleanComponents(rest, out, rooted)
             ELSE CleanComponents(rest, Append(out, c), rooted)

\* filepath.Clean
Clean(path) ==
    IF path = <<>> THEN <<".">>
    ELSE LET rooted == path[1] = Separator
             Rebuilt(body) == IF rooted THEN <<Separator>> \o body
                              ELSE IF body = <<>> THEN <<".">> ELSE body
         IN  Rebuilt(JoinWith(CleanComponents(SplitOn(path, Separator), <<>>, rooted),
                              Separator))

\* filepath.Join(a, b)
Join(a, b) ==
    IF a = <<>> /\ b = <<>> THEN <<>>
    ELSE Clean(IF a # <<>> /\ b # <<>> THEN a \o <<Separator>> \o b ELSE a \o b)

RECURSIVE StripTrailingSeparators(_)
StripTrailingSeparators(p) ==
    IF p # <<>> /\ p[Len(p)] = Separator
    THEN StripTrailingSeparators(SubSeq(p, 1, Len(p) - 1))
    ELSE p

\* filepath.Base
Base(path) ==
    IF path = <<>> THEN <<".">>
    ELSE LET p == StripTrailingSeparators(path)
             parts == SplitOn(p, Separator)
             last == parts[Len(parts)]
         IN  IF last = <<>> THEN <<Separator>> ELSE last

(***************************************************************************)
(* the environment of one run of the hook                                  *)
(***************************************************************************)

\* os.UserHomeDir() and os.Getwd() of the run: the project root lies in the
\* home directory, so that a relative path can reach a protected location.
HomeDir == <<"/", "h">>

Cwd == <<"/", "h", "/", "p">>

VARIABLES
    cwdErr,     \* os.Getwd() fails in this run
    cfg,        \* the configuration the evaluator was built with
    env,        \* what the external collaborators answer in this run
    input,      \* the request being evaluated
    result,     \* the Result of Evaluator.Evaluate for it
    ran,        \* the checks Evaluate ran for it, in the order it ran them
    executed,   \* the names of the hooks Evaluate executed, in order
    fn          \* the function results of the last pure-function step

vars == <<cwdErr, cfg, env, input, result, ran, executed, fn>>

(***************************************************************************)
(* internal/policy/protected.go                                            *)
(***************************************************************************)

alwaysProtected == <<
    <<"~", "/", ".", "c", "l", "a", "u", "d", "e", "/">>,
    <<"~", "/", ".", "s", "s", "h", "/">>,
    <<"~", "/", ".", "a", "w", "s", "/">>,
    <<"~", "/", ".", "g", "n", "u", "p", "g", "/">>,
    <<"~", "/", ".", "g", "p", "g", "/">>,
    <<"~", "/", ".", "c", "o", "n", "f", "i", "g", "/", "g", "h", "/">>,
    <<"~", "/", ".", "c", "o", "n", "f", "i", "g", "/", "w", "a", "t", "c", "h", "m", "a", "n", "/">>,
    <<"~", "/", ".", "n", "e", "t", "r", "c">>,
    <<"~", "/", ".", "g", "i", "t", "-", "c", "r", "e", "d", "e", "n", "t", "i", "a", "l", "s">>,
    <<"~", "/", "g", "o", "/", "b", "i", "n", "/", "w", "a", "t", "c", "h", "m", "a", "n">>
>>

protectedFilenames == << <<".", "w", "a", "t", "c", "h", "m", "a", "n", ".", "y", "m", "l">> >>

\* resolvePath
resolvePath(p) ==
    Clean(IF IsAbs(p) THEN p
          ELSE IF ~cwdErr THEN Join(Cwd, p)
          ELSE p)

\* the pattern of alwaysProtected as IsAlwaysProtected compares it
expandedPattern(pattern) ==
    LET trimmed == TrimSuffix(pattern, <<"/">>)
    IN  IF HasPrefix(trimmed, <<"~", "/">>)
        THEN Join(HomeDir, SubSeq(trimmed, 3, Len(trimmed)))
        ELSE trimmed

\* alwaysProtected with every pattern expanded
expandedProtected == [i \in 1..Len(alwaysProtected) |-> expandedPattern(alwaysProtected[i])]

\* the separator-less prefix test a careless oracle would make
IsAlwaysProtected_NoSeparator(p) ==
    /\ p # <<>>
    /\ LET absPath == resolvePath(p)
       IN  \/ \E i \in 1..Len(protectedFilenames) : Base(absPath) = protectedFilenames[i]
           \/ \E i \in 1..Len(alwaysProtected) :
                 LET pattern == alwaysProtected[i]
                 IN  IF HasSuffix(pattern, <<"/">>)
                     THEN HasPrefix(absPath, expandedProtected[i])
                     ELSE absPath = expandedProtected[i]

IsAlwaysProtected(p) ==
    /\ p # <<>>
    /\ LET Protects(absPath, expanded) ==
               LET filename == Base(absPath)
               IN  \/ \E i \in 1..Len(protectedFilenames) : filename = protectedFilenames[i]
                   \/ \E i \in 1..Len(alwaysProtected) :
                         LET pattern == alwaysProtected[i]
                             isDir == HasSuffix(pattern, <<"/">>)
                         IN  IF isDir
                             THEN \/ absPath = expanded[i]
                                  \/ HasPrefix(absPath, expanded[i] \o <<Separator>>)
                             ELSE absPath = expanded[i]
       IN  Protects(resolvePath(p), expandedProtected)

matchPath(path, pattern0) ==
    LET Matches(pattern) ==
            IF path = pattern THEN TRUE
            ELSE IF HasSuffix(pattern, <<"/">>)
            THEN HasPrefix(path, pattern) \/ path = TrimSuffix(pattern, <<"/">>)
            ELSE HasPrefix(path, pattern \o <<"/">>)
    IN  Matches(IF HasPrefix(pattern0, <<"~", "/">>)
                THEN Join(HomeDir, SubSeq(pattern0, 3, Len(pattern0)))
                ELSE pattern0)

(***************************************************************************)
(* internal/parser: Parse and its tokenizer                                *)
(***************************************************************************)

UpperLetters ==
    {"A", "B", "C", "D", "E", "F", "G", "H", "I", "J", "K", "L", "M",
     "N", "O", "P", "Q", "R", "S", "T", "U", "V", "W", "X", "Y", "Z"}

Digits == {"0", "1", "2", "3", "4", "5", "6", "7", "8", "9"}

\* A Go map as the sequence of its <<key, value>> entries, keys distinct.
MapPut(m, k, v) ==
    IF \E i \in 1..Len(m) : m[i][1] = k
    THEN [i \in 1..Len(m) |-> IF m[i][1] = k THEN <<k, v>> ELSE m[i]]
    ELSE Append(m, <<k, v>>)

RECURSIVE MapValues(_)
MapValues(m) == IF m = <<>> THEN <<>> ELSE <<m[1][2]>> \o MapValues(Tail(m))

Reverse(s) == [i \in 1..Len(s) |-> s[Len(s) + 1 - i]]

\* One turn of the loop of parser.tokenize: the state after the character r.
tokenizeStep(st, r) ==
    IF st.escaped
    THEN [st EXCEPT !.current = Append(st.current, r), !.escaped = FALSE]
    ELSE IF r = "\\"
    THEN IF st.inSingleQuote
         THEN [st EXCEPT !.current = Append(st.current, r)]
         ELSE [st EXCEPT !.escaped = TRUE]
    ELSE IF r = "'"
    THEN IF ~st.inDoubleQuote
         THEN [st EXCEPT !.inSingleQuote = ~st.inSingleQuote]
         ELSE [st EXCEPT !.current = Append(st.current, r)]
    ELSE IF r = "\""
    THEN IF ~st.inSingleQuote
         THEN [st EXCEPT !.inDoubleQuote = ~st.inDoubleQuote]
         ELSE [st EXCEPT !.current = Append(st.current, r)]
    ELSE IF r = " " \/ r = "\t"
    THEN IF st.inSingleQuote \/ st.inDoubleQuote
         THEN [st EXCEPT !.current = Append(st.current, r)]
         ELSE IF Len(st.current) > 0
         THEN [st EXCEPT !.tokens = Append(st.tokens, st.current), !.current = <<>>]
         ELSE st
    ELSE [st EXCEPT !.current = Append(st.current, r)]

\* The state of the tokenizer's loop after the characters lo..hi of cmd,
\* entered in state st.
RECURSIVE tokenizeOver(_, _, _, _)
tokenizeOver(cmd, lo, hi, st) ==
    IF lo > hi THEN st
    ELSE IF lo = hi THEN tokenizeStep(st, cmd[lo])
    ELSE LET mid == (lo + hi) \div 2
             left == tokenizeOver(cmd, lo, mid, st)
         IN  \* the first half is gone through before the second is entered
             IF left.escaped \in BOOLEAN THEN tokenizeOver(cmd, mid + 1, hi, left)
             ELSE left

\* parser.tokenize
tokenize(cmd) ==
    LET st == tokenizeOver(cmd, 1, Len(cmd),
                           [tokens |-> <<>>, current |-> <<>>, inSingleQuote |-> FALSE,
                            inDoubleQuote |-> FALSE, escaped |-> FALSE])
    IN  IF Len(st.current) > 0 THEN Append(st.tokens, st.current) ELSE st.tokens

IsSpace(c) == c \in {" ", "\t", "\n", "\r"}

RECURSIVE TrimSpace(_)
TrimSpace(s) ==
    IF s # <<>> /\ IsSpace(s[1]) THEN TrimSpace(Tail(s))
    ELSE IF s # <<>> /\ IsSpace(s[Len(s)]) THEN TrimSpace(SubSeq(s, 1, Len(s) - 1))
    ELSE s

\* envVarPattern ^([A-Z_][A-Z0-9_]*)=(.*)$ : the position of the "=" that
\* ends the name when the token matches, 0 when it does not match.
envVarSplit(token) ==
    IF /\ \E k \in 1..Len(token) : token[k] = "="
       /\ LET k == CHOOSE k \in 1..Len(token) :
                       token[k] = "=" /\ \A j \in 1..(k - 1) : token[j] # "="
          IN  /\ k >= 2
              /\ token[1] \in UpperLetters \cup {"_"}
              /\ \A j \in 2..(k - 1) : token[j] \in UpperLetters \cup Digits \cup {"_"}
              /\ \A j \in (k + 1)..Len(token) : token[j] # "\n"
    THEN CHOOSE k \in 1..Len(token) :
             token[k] = "=" /\ \A j \in 1..(k - 1) : token[j] # "="
    ELSE 0

\* parseFlag: <<key, value>>
parseFlag(token) ==
    LET idx == Index(token, <<"=">>)
    IN  IF idx # -1
        THEN <<SubSeq(token, 1, idx), SubSeq(token, idx + 2, Len(token))>>
        ELSE <<token, <<>>>>

subcommandPrograms == {
    <<"g", "o">>,
    <<"g", "i", "t">>,
    <<"m", "a", "k", "e">>,
    <<"d", "o", "c", "k", "e", "r">>,
    <<"k", "u", "b", "e", "c", "t", "l">>,
    <<"n", "p", "m">>,
    <<"y", "a", "r", "n">>,
    <<"c", "a", "r", "g", "o">> }

\* every program taken to have subcommands
hasSubcommand_Any(program) == TRUE

hasSubcommand(program) == program \in subcommandPrograms

\* Parse's first loop: the leading environment assignments
RECURSIVE parseEnv(_, _, _)
parseEnv(tokens, idx, envMap) ==
    IF idx <= Len(tokens) /\ envVarSplit(tokens[idx]) # 0
    THEN LET k == envVarSplit(tokens[idx])
             t == tokens[idx]
         IN  parseEnv(tokens, idx + 1,
                      MapPut(envMap, SubSeq(t, 1, k - 1), SubSeq(t, k + 1, Len(t))))
    ELSE <<idx, envMap>>

\* Parse's last loop: the remaining tokens as flags and args
RECURSIVE parseRest(_, _, _, _)
parseRest(tokens, idx, args, flags) ==
    IF idx > Len(tokens) THEN <<args, flags>>
    ELSE LET token == tokens[idx]
         IN  IF HasPrefix(token, <<"-">>)
             THEN LET kv == parseFlag(token)
                      takeNext ==
                          /\ kv[2] = <<>>
                          /\ idx + 1 <= Len(tokens)
                          /\ ~HasPrefix(tokens[idx + 1], <<"-">>)
                          /\ ~HasPrefix(tokens[idx + 1], <<".">>)
                          /\ ~HasPrefix(tokens[idx + 1], <<"/">>)
                          /\ ~Contains(tokens[idx + 1], <<"/">>)
                  IN  IF takeNext
                      THEN parseRest(tokens, idx + 2, args,
                                     MapPut(flags, kv[1], tokens[idx + 1]))
                      ELSE parseRest(tokens, idx + 1, args, MapPut(flags, kv[1], kv[2]))
             ELSE parseRest(tokens, idx + 1, Append(args, token), flags)

EmptyCommand(raw) ==
    [Raw |-> raw, Env |-> <<>>, Program |-> <<>>, Subcommand |-> <<>>,
     Args |-> <<>>, Flags |-> <<>>]

\* parser.Parse
Parse(cmd) ==
    LET \* from the program token on: e is <<idx, Env>> after the first loop
        FromProgram(tokens, e, sub) ==
            LET Built(rest) ==
                    [Raw |-> cmd, Env |-> e[2], Program |-> tokens[e[1]],
                     Subcommand |-> IF sub THEN tokens[e[1] + 1] ELSE <<>>,
                     Args |-> rest[1], Flags |-> rest[2]]
            IN  Built(parseRest(tokens, IF sub THEN e[1] + 2 ELSE e[1] + 1, <<>>, <<>>))
        FromEnv(tokens, e) ==
            IF e[1] > Len(tokens) THEN [EmptyCommand(cmd) EXCEPT !.Env = e[2]]
            ELSE FromProgram(tokens, e,
                             /\ e[1] + 1 <= Len(tokens)
                             /\ ~HasPrefix(tokens[e[1] + 1], <<"-">>)
                             /\ hasSubcommand(tokens[e[1]]))
        FromTokens(trimmed, tokens) ==
            IF trimmed = <<>> \/ Len(tokens) = 0 THEN EmptyCommand(cmd)
            ELSE FromEnv(tokens, parseEnv(tokens, 1, <<>>))
    IN  FromTokens(TrimSpace(cmd), tokenize(TrimSpace(cmd)))

(***************************************************************************)
(* decisions and results                                                   *)
(***************************************************************************)

\* A reason is a fixed text followed by the string the code appends to it.
Msg(text, arg) == [text |-> text, arg |-> arg]

NoMsg == Msg("", <<>>)

\* policy.Decision
Allow == [Allowed |-> TRUE, Reason |-> NoMsg, Warning |-> ""]

Deny(text, arg) == [Allowed |-> FALSE, Reason |-> Msg(text, arg), Warning |-> ""]

\* the first of the decisions decs that does not allow, or Allow
FirstDenial(decs) ==
    IF \E i \in 1..Len(decs) : ~decs[i].Allowed
    THEN decs[CHOOSE i \in 1..Len(decs) :
                  ~decs[i].Allowed /\ \A j \in 1..(i - 1) : decs[j].Allowed]
    ELSE Allow

NonEmptyOnes(seq) == SelectSeq(seq, LAMBDA s : s # <<>>)

(***************************************************************************)
(* internal/policy/rule_workspace.go                                       *)
(***************************************************************************)

\* The order in which this run ranges over the entries of a Go map.
MapIter(m) == IF env.mapRev THEN Reverse(m) ELSE m

\* collectPathCandidates without the environment values
collectPathCandidates_NoEnv(cmd) ==
    cmd.Args \o NonEmptyOnes(MapValues(MapIter(cmd.Flags)))

collectPathCandidates(cmd) ==
    cmd.Args \o NonEmptyOnes(MapValues(MapIter(cmd.Flags))) \o MapValues(MapIter(cmd.Env))

\* ConfineToWorkspace.isBlocked
isBlocked(r, p) == \E i \in 1..Len(r.Block) : matchPath(p, r.Block[i])

\* ConfineToWorkspace.isAllowed
isAllowed(r, p) == \E i \in 1..Len(r.Allow) : matchPath(p, r.Allow[i])

\* the boundary test without the separator after the root
violatesBoundary_NoSeparator(r, p) ==
    IF p = <<>> THEN FALSE
    ELSE IF cwdErr THEN TRUE
    ELSE LET Outside(absPath, cwdClean) ==
                 IF HasPrefix(absPath, cwdClean) THEN FALSE
                 ELSE IF isAllowed(r, p) THEN FALSE
                 ELSE TRUE
         IN  Outside(Clean(IF IsAbs(p) THEN p ELSE Join(Cwd, p)), Clean(Cwd))

\* the boundary test with the allow list consulted before the working directory
violatesBoundary_AllowFirst(r, p) ==
    IF p = <<>> THEN FALSE
    ELSE IF isAllowed(r, p) THEN FALSE
    ELSE IF cwdErr THEN TRUE
    ELSE LET Outside(absPath, cwdClean) ==
                 ~(absPath = cwdClean \/ HasPrefix(absPath, cwdClean \o <<Separator>>))
         IN  Outside(Clean(IF IsAbs(p) THEN p ELSE Join(Cwd, p)), Clean(Cwd))

\* ConfineToWorkspace.violatesBoundary
violatesBoundary(r, p) ==
    IF p = <<>> THEN FALSE
    ELSE IF cwdErr THEN TRUE
    ELSE LET Outside(absPath, cwdClean) ==
                 LET isInside == \/ absPath = cwdClean
                                 \/ HasPrefix(absPath, cwdClean \o <<Separator>>)
                 IN  IF isInside THEN FALSE
                     ELSE IF isAllowed(r, p) THEN FALSE
                     ELSE TRUE
         IN  Outside(Clean(IF IsAbs(p) THEN p ELSE Join(Cwd, p)), Clean(Cwd))

ProtectedReason ==
    "path is protected and cannot be accessed. User must perform this action manually."

OutsideReason == "cannot access paths outside the project workspace"

\* the body of the loop of ConfineToWorkspace.Evaluate, allow list consulted first
ConfinePath_AllowFirst(r, p) ==
    IF IsAlwaysProtected(p) THEN Deny(ProtectedReason, <<>>)
    ELSE IF isAllowed(r, p) THEN Allow
    ELSE IF isBlocked(r, p) THEN Deny("path is blocked by configuration: ", p)
    ELSE IF violatesBoundary(r, p) THEN Deny(OutsideReason, <<>>)
    ELSE Allow

\* the body of the loop of ConfineToWorkspace.Evaluate
ConfinePath(r, p) ==
    IF IsAlwaysProtected(p) THEN Deny(ProtectedReason, <<>>)
    ELSE IF isBlocked(r, p) THEN Deny("path is blocked by configuration: ", p)
    ELSE IF violatesBoundary(r, p) THEN Deny(OutsideReason, <<>>)
    ELSE Allow

\* ConfineToWorkspace.Evaluate
ConfineToWorkspace_Evaluate(r, cmd) ==
    LET Confine(candidates) ==
            FirstDenial([i \in 1..Len(candidates) |-> ConfinePath(r, candidates[i])])
    IN  Confine(collectPathCandidates(cmd))

(***************************************************************************)
(* internal/policy/rule_scope.go                                           *)
(***************************************************************************)

writeTools == {
    <<"W", "r", "i", "t", "e">>,
    <<"E", "d", "i", "t">>,
    <<"N", "o", "t", "e", "b", "o", "o", "k", "E", "d", "i", "t">> }

\* filepath.Match for patterns made of literals, "?" and "*"
RECURSIVE Match(_, _)
Match(pattern, name) ==
    IF pattern = <<>> THEN name = <<>>
    ELSE IF pattern[1] = "*"
    THEN \E k \in 0..Len(name) :
            /\ \A j \in 1..k : name[j] # Separator
            /\ Match(Tail(pattern), SubSeq(name, k + 1, Len(name)))
    ELSE IF pattern[1] = "?"
    THEN name # <<>> /\ name[1] # Separator /\ Match(Tail(pattern), Tail(name))
    ELSE name # <<>> /\ name[1] = pattern[1] /\ Match(Tail(pattern), Tail(name))

\* strings.Split(s, sep)
RECURSIVE Split(_, _)
Split(s, sep) ==
    IF Index(s, sep) = -1 THEN <<s>>
    ELSE <<SubSeq(s, 1, Index(s, sep))>>
         \o Split(SubSeq(s, Index(s, sep) + Len(sep) + 1, Len(s)), sep)

\* matchDoublestar with at least one component taken by "**"
matchDoublestar_NoEmptyRun(path, pattern) ==
    LET parts == Split(pattern, <<"*", "*">>)
    IN  IF Len(parts) # 2 THEN FALSE
        ELSE LET prefix == TrimSuffix(parts[1], <<Separator>>)
                 suffix == TrimPrefix(parts[2], <<Separator>>)
                 remaining == IF prefix # <<>>
                              THEN TrimPrefix(TrimPrefix(path, prefix), <<Separator>>)
                              ELSE path
                 pathParts == SplitOn(remaining, Separator)
             IN  IF prefix # <<>> /\ ~HasPrefix(path, prefix) THEN FALSE
                 ELSE IF suffix = <<>> THEN TRUE
                 ELSE \E i \in 2..Len(pathParts) :
                         Match(suffix,
                               JoinWith(SubSeq(pathParts, i, Len(pathParts)), Separator))

matchDoublestar(path, pattern) ==
    LET parts == Split(pattern, <<"*", "*">>)
    IN  IF Len(parts) # 2 THEN FALSE
        ELSE LET prefix == TrimSuffix(parts[1], <<Separator>>)
                 suffix == TrimPrefix(parts[2], <<Separator>>)
                 remaining == IF prefix # <<>>
                              THEN TrimPrefix(TrimPrefix(path, prefix), <<Separator>>)
                              ELSE path
                 pathParts == SplitOn(remaining, Separator)
             IN  IF prefix # <<>> /\ ~HasPrefix(path, prefix) THEN FALSE
                 ELSE IF suffix = <<>> THEN TRUE
                 ELSE \E i \in 1..Len(pathParts) :
                         Match(suffix,
                               JoinWith(SubSeq(pathParts, i, Len(pathParts)), Separator))

matchGlob(path0, pattern0) ==
    LET path == Clean(path0)
        pattern == Clean(pattern0)
    IN  IF Contains(pattern, <<"*", "*">>) THEN matchDoublestar(path, pattern)
        ELSE Match(pattern, path) \/ Match(pattern, Base(path))

\* ScopeToFiles.isBlocked
scopeIsBlocked(r, p) == \E i \in 1..Len(r.Block) : matchGlob(p, r.Block[i])

\* ScopeToFiles.isInScope
isInScope(r, p) ==
    Len(r.Allow) = 0 \/ \E i \in 1..Len(r.Allow) : matchGlob(p, r.Allow[i])

\* the body of the loop of ScopeToFiles.Evaluate, allow list consulted first
ScopePath_AllowFirst(r, p) ==
    IF Len(r.Allow) > 0 /\ isInScope(r, p) THEN Allow
    ELSE IF scopeIsBlocked(r, p) THEN Deny("path is blocked by scope configuration: ", p)
    ELSE IF ~isInScope(r, p) THEN Deny("path is outside allowed scope: ", p)
    ELSE Allow

\* the body of the loop of ScopeToFiles.Evaluate
ScopePath(r, p) ==
    IF scopeIsBlocked(r, p) THEN Deny("path is blocked by scope configuration: ", p)
    ELSE IF ~isInScope(r, p) THEN Deny("path is outside allowed scope: ", p)
    ELSE Allow

\* ScopeToFiles.Evaluate
ScopeToFiles_Evaluate(r, toolName, cmd) ==
    IF toolName \notin writeTools THEN Allow
    ELSE LET Scoped(paths) == FirstDenial([i \in 1..Len(paths) |-> ScopePath(r, paths[i])])
         IN  Scoped(collectPathCandidates(cmd))

(***************************************************************************)
(* internal/hook/evaluator.go: tool and command filters                    *)
(***************************************************************************)

LowerLetters ==
    <<"a", "b", "c", "d", "e", "f", "g", "h", "i", "j", "k", "l", "m",
      "n", "o", "p", "q", "r", "s", "t", "u", "v", "w", "x", "y", "z">>

UpperSeq ==
    <<"A", "B", "C", "D", "E", "F", "G", "H", "I", "J", "K", "L", "M",
      "N", "O", "P", "Q", "R", "S", "T", "U", "V", "W", "X", "Y", "Z">>

\* the simple case folding of one character
Fold(c) ==
    IF \E i \in 1..26 : UpperSeq[i] = c
    THEN LowerLetters[CHOOSE i \in 1..26 : UpperSeq[i] = c]
    ELSE c

\* strings.EqualFold
EqualFold(s, u) == Len(s) = Len(u) /\ \A i \in 1..Len(s) : Fold(s[i]) = Fold(u[i])

\* isToolBlocked comparing the names exactly
isToolBlocked_ExactCase(c, tool) == \E i \in 1..Len(c.Tools.Block) : c.Tools.Block[i] = tool

\* Evaluator.isToolBlocked
isToolBlocked(c, tool) == \E i \in 1..Len(c.Tools.Block) : EqualFold(c.Tools.Block[i], tool)

\* Evaluator.isToolAllowed
isToolAllowed(c, tool) ==
    \/ Len(c.Tools.Allow) = 0
    \/ \E i \in 1..Len(c.Tools.Allow) : EqualFold(c.Tools.Allow[i], tool)

\* the inner loop of splitCommandSegments over a quoted string: <<i, current>>
\* when the loop ends
RECURSIVE skipQuoted(_, _, _, _)
skipQuoted(cmd, i, quote, current) ==
    IF i <= Len(cmd) /\ cmd[i] # quote
    THEN IF cmd[i] = "\\" /\ i + 1 <= Len(cmd)
         THEN skipQuoted(cmd, i + 2, quote, current \o <<cmd[i], cmd[i + 1]>>)
         ELSE skipQuoted(cmd, i + 1, quote, Append(current, cmd[i]))
    ELSE <<i, current>>

RECURSIVE splitFrom(_, _, _, _)
splitFrom(cmd, i, segments, current) ==
    IF i > Len(cmd)
    THEN IF Len(current) > 0 THEN Append(segments, current) ELSE segments
    ELSE LET ch == cmd[i]
             nextIs(c) == i + 1 <= Len(cmd) /\ cmd[i + 1] = c
         IN  IF ch = "|"
             THEN splitFrom(cmd, IF nextIs("|") THEN i + 2 ELSE i + 1,
                            Append(segments, current), <<>>)
             ELSE IF ch = "&"
             THEN IF nextIs("&")
                  THEN splitFrom(cmd, i + 2, Append(segments, current), <<>>)
                  ELSE splitFrom(cmd, i + 1, segments, Append(current, ch))
             ELSE IF ch = ";"
             THEN splitFrom(cmd, i + 1, Append(segments, current), <<>>)
             ELSE IF ch = "'" \/ ch = "\""
             THEN LET q == skipQuoted(cmd, i + 1, ch, Append(current, ch))
                  IN  splitFrom(cmd, q[1] + 1, segments,
                                IF q[1] <= Len(cmd) THEN Append(q[2], cmd[q[1]]) ELSE q[2])
             ELSE splitFrom(cmd, i + 1, segments, Append(current, ch))

splitCommandSegments(cmd) == splitFrom(cmd, 1, <<>>, <<>>)

\* the tokenizer of evaluator.go; inQuote is "" outside quotes
RECURSIVE hookTokenizeFrom(_, _, _, _, _)
hookTokenizeFrom(s, i, tokens, current, inQuote) ==
    IF i > Len(s)
    THEN IF Len(current) > 0 THEN Append(tokens, current) ELSE tokens
    ELSE LET ch == s[i]
         IN  IF inQuote # ""
             THEN IF ch = inQuote
                  THEN hookTokenizeFrom(s, i + 1, tokens, current, "")
                  ELSE hookTokenizeFrom(s, i + 1, tokens, Append(current, ch), inQuote)
             ELSE IF ch = "'" \/ ch = "\""
             THEN hookTokenizeFrom(s, i + 1, tokens, current, ch)
             ELSE IF ch = " " \/ ch = "\t"
             THEN IF Len(current) > 0
                  THEN hookTokenizeFrom(s, i + 1, Append(tokens, current), <<>>, inQuote)
                  ELSE hookTokenizeFrom(s, i + 1, tokens, current, inQuote)
             ELSE hookTokenizeFrom(s, i + 1, tokens, Append(current, ch), inQuote)

hook_tokenize(s) == hookTokenizeFrom(s, 1, <<>>, <<>>, "")

extractCommandName(segment) ==
    LET tokens == hook_tokenize(TrimSpace(segment))
        IsAssignment(tok) == Contains(tok, <<"=">>) /\ ~HasPrefix(tok, <<"-">>)
    IN  IF \E i \in 1..Len(tokens) : ~IsAssignment(tokens[i])
        THEN tokens[CHOOSE i \in 1..Len(tokens) :
                        ~IsAssignment(tokens[i])
                        /\ \A j \in 1..(i - 1) : IsAssignment(tokens[j])]
        ELSE <<>>

isCommandInPosition(cmd, pattern) ==
    LET segments == splitCommandSegments(cmd)
    IN  \E i \in 1..Len(segments) :
            /\ TrimSpace(segments[i]) # <<>>
            /\ extractCommandName(TrimSpace(segments[i])) = pattern

\* whether one pattern of commands.block matches the command
commandPatternMatches(cmd, pattern) ==
    IF Contains(pattern, <<" ">>) THEN Contains(cmd, pattern)
    ELSE isCommandInPosition(cmd, pattern)

\* Evaluator.isCommandBlocked: the first matching pattern, or the empty string
isCommandBlocked(c, cmd) ==
    LET block == c.Commands.Block
    IN  IF \E i \in 1..Len(block) : commandPatternMatches(cmd, block[i])
        THEN block[CHOOSE i \in 1..Len(block) :
                       /\ commandPatternMatches(cmd, block[i])
                       /\ \A j \in 1..(i - 1) : ~commandPatternMatches(cmd, block[j])]
        ELSE <<>>

Bash == <<"B", "a", "s", "h">>
Read == <<"R", "e", "a", "d">>
Write == <<"W", "r", "i", "t", "e">>
Edit == <<"E", "d", "i", "t">>
Glob == <<"G", "l", "o", "b">>
Grep == <<"G", "r", "e", "p">>
NotebookEdit == <<"N", "o", "t", "e", "b", "o", "o", "k", "E", "d", "i", "t">>
WebSearch == <<"W", "e", "b", "S", "e", "a", "r", "c", "h">>

filesystemTools == {Bash, Read, Write, Edit, Glob, Grep}

isFilesystemTool(tool) == tool \in filesystemTools

isModificationTool(tool) == tool \in {Write, Edit, NotebookEdit}

(***************************************************************************)
(* the path extractor                                                      *)
(***************************************************************************)

\* A field of tool_input is <<>> when the key is absent (or no string) and
\* <<value>> when it is present.
extractBashPaths(toolInput) ==
    IF toolInput.command = <<>> THEN <<>>
    ELSE LET Candidates(cmd) ==
                 cmd.Args \o NonEmptyOnes(MapValues(MapIter(cmd.Flags)))
                          \o MapValues(MapIter(cmd.Env))
         IN  Candidates(Parse(toolInput.command[1]))

extractFilePath(toolInput) == toolInput.file_path

extractGlobPaths(toolInput) == toolInput.path \o toolInput.pattern

extractGrepPaths(toolInput) == toolInput.path

\* hook.ExtractPaths
ExtractPaths(toolName, toolInput) ==
    NonEmptyOnes(
        IF toolName = Bash THEN extractBashPaths(toolInput)
        ELSE IF toolName \in {Read, Write, Edit, NotebookEdit} THEN extractFilePath(toolInput)
        ELSE IF toolName = Glob THEN extractGlobPaths(toolInput)
        ELSE IF toolName = Grep THEN extractGrepPaths(toolInput)
        ELSE <<>>)

\* parser.Command{Args: []string{p}}
ArgCommand(p) == [EmptyCommand(<<>>) EXCEPT !.Args = <<p>>]

(***************************************************************************)
(* the incremental rule                                                    *)
(***************************************************************************)

\* warnThreshold with the ratio taken as configured
warnThreshold_AsConfigured(r) == (r.MaxFiles * r.WarnRatio) \div 100

\* warn_ratio is held in hundredths; for the limits and ratios of the runs
\* int(float64(MaxFiles) * ratio) is this quotient
warnThreshold(r) ==
    IF r.WarnRatio <= 0 \/ r.WarnRatio >= 100
    THEN (r.MaxFiles * 70) \div 100
    ELSE (r.MaxFiles * r.WarnRatio) \div 100

\* IncrementalRule.Evaluate with the warning text kept on the denial at the limit
IncrementalRule_Evaluate_WarnOnDeny(r, count) ==
    IF r.MaxFiles <= 0 THEN Allow
    ELSE IF count < 0 THEN Allow
    ELSE IF count >= warnThreshold(r)
    THEN [Allowed |-> count < r.MaxFiles,
          Reason |-> IF count < r.MaxFiles THEN NoMsg
                     ELSE Msg("maximum modified files reached (" \o ToString(count) \o "/"
                              \o ToString(r.MaxFiles)
                              \o "), commit or review changes before continuing", <<>>),
          Warning |-> "approaching file limit: " \o ToString(count) \o "/"
                      \o ToString(r.MaxFiles) \o " files modified, consider committing soon"]
    ELSE Allow

\* IncrementalRule.Evaluate; count is what the counter returns when asked
IncrementalRule_Evaluate(r, count) ==
    IF r.MaxFiles <= 0 THEN Allow
    ELSE IF count < 0 THEN Allow
    ELSE IF count >= r.MaxFiles
    THEN [Allowed |-> FALSE,
          Reason |-> Msg("maximum modified files reached (" \o ToString(count) \o "/"
                         \o ToString(r.MaxFiles)
                         \o "), commit or review changes before continuing", <<>>),
          Warning |-> ""]
    ELSE IF count >= warnThreshold(r)
    THEN [Allowed |-> TRUE, Reason |-> NoMsg,
          Warning |-> "approaching file limit: " \o ToString(count) \o "/"
                      \o ToString(r.MaxFiles) \o " files modified, consider committing soon"]
    ELSE Allow

(***************************************************************************)
(* the versioning rule                                                     *)
(***************************************************************************)

GitSp == <<"g", "i", "t", " ">>
JjSp == <<"j", "j", " ">>
GitCommit == <<"g", "i", "t", " ", "c", "o", "m", "m", "i", "t">>
JjCommit == <<"j", "j", " ", "c", "o", "m", "m", "i", "t">>
GitMerge == <<"g", "i", "t", " ", "m", "e", "r", "g", "e">>
JjMerge == <<"j", "j", " ", "m", "e", "r", "g", "e">>
GitRebase == <<"g", "i", "t", " ", "r", "e", "b", "a", "s", "e">>
JjRebase == <<"j", "j", " ", "r", "e", "b", "a", "s", "e">>

isGitCommand(cmd) == Contains(cmd, GitSp) \/ Contains(cmd, JjSp)

isCommitCommand(cmd) == Contains(cmd, GitCommit) \/ Contains(cmd, JjCommit)

\* VersioningRule.isBlockedOperation: the first entry of operations.block
\* found in the command, or the empty string
isBlockedOperation(r, cmd) ==
    LET ops == r.Operations.Block
    IN  IF \E i \in 1..Len(ops) : Contains(cmd, ops[i])
        THEN ops[CHOOSE i \in 1..Len(ops) :
                     Contains(cmd, ops[i]) /\ \A j \in 1..(i - 1) : ~Contains(cmd, ops[j])]
        ELSE <<>>

violatesWorkflow(r, cmd) ==
    IF r.Workflow = "linear" /\ (Contains(cmd, GitMerge) \/ Contains(cmd, JjMerge))
    THEN "workflow is linear: use rebase instead of merge"
    ELSE IF r.Workflow = "merge" /\ (Contains(cmd, GitRebase) \/ Contains(cmd, JjRebase))
    THEN "workflow is merge-based: use merge instead of rebase"
    ELSE ""

\* strings.Fields
RECURSIVE FieldsFrom(_, _, _, _)
FieldsFrom(s, i, fields, current) ==
    IF i > Len(s)
    THEN IF current # <<>> THEN Append(fields, current) ELSE fields
    ELSE IF IsSpace(s[i])
    THEN FieldsFrom(s, i + 1, IF current # <<>> THEN Append(fields, current) ELSE fields,
                    <<>>)
    ELSE FieldsFrom(s, i + 1, fields, Append(current, s[i]))

Fields(s) == FieldsFrom(s, 1, <<>>, <<>>)

extractBranchFromCommand(cmd) ==
    LET parts == Split(cmd, <<" ", "-", "b", " ">>)
    IN  IF Len(parts) > 1 /\ Len(Fields(parts[2])) > 0 THEN Fields(parts[2])[1] ELSE <<>>

isProtectedBranch(r, branch) ==
    \E i \in 1..Len(r.Branches.Protected) : r.Branches.Protected[i] = branch

\* findClosingQuote: the 0-based index of the first unescaped quote, or -1
RECURSIVE findClosingFrom(_, _, _, _)
findClosingFrom(s, i, quote, escaped) ==
    IF i > Len(s) THEN -1
    ELSE IF escaped THEN findClosingFrom(s, i + 1, quote, FALSE)
    ELSE IF s[i] = "\\" THEN findClosingFrom(s, i + 1, quote, TRUE)
    ELSE IF s[i] = quote THEN i - 1
    ELSE findClosingFrom(s, i + 1, quote, FALSE)

findClosingQuote(s, quote) == findClosingFrom(s, 1, quote, FALSE)

\* strings.IndexAny(s, "'\n")
IndexQuoteOrNewline(s) ==
    IF \E i \in 1..Len(s) : s[i] \in {"'", "\n"}
    THEN (CHOOSE i \in 1..Len(s) :
              s[i] \in {"'", "\n"} /\ \A j \in 1..(i - 1) : s[j] \notin {"'", "\n"}) - 1
    ELSE -1

extractHeredocFromCat(s) ==
    LET start == Index(s, <<"<", "<">>)
    IN  IF start = -1 THEN <<>>
        ELSE LET rest0 == SubSeq(s, start + 3, Len(s))
                 rest1 == IF HasPrefix(rest0, <<"'">>) THEN Tail(rest0) ELSE rest0
                 delimEnd == IndexQuoteOrNewline(rest1)
             IN  IF delimEnd = -1 THEN <<>>
                 ELSE LET delimiter == SubSeq(rest1, 1, delimEnd)
                          rest == SubSeq(rest1, delimEnd + 2, Len(rest1))
                          endIdx == Index(rest, delimiter)
                      IN  IF endIdx > 0 THEN TrimSpace(SubSeq(rest, 1, endIdx)) ELSE <<>>

extractHeredocMessage(cmd) ==
    LET idx == Index(cmd, <<"<", "<">>)
    IN  IF idx = -1 THEN <<>>
        ELSE LET rest0 == TrimSpace(SubSeq(cmd, idx + 3, Len(cmd)))
                 quoted == HasPrefix(rest0, <<"'">>)
                 end == IF quoted THEN Index(Tail(rest0), <<"'">>) ELSE -1
                 fields == Fields(rest0)
                 delimiter == IF quoted
                              THEN (IF end > 0 THEN SubSeq(rest0, 2, end + 1) ELSE <<>>)
                              ELSE (IF Len(fields) > 0 THEN fields[1] ELSE <<>>)
                 rest1 == IF quoted
                          THEN (IF end > 0 THEN SubSeq(rest0, end + 3, Len(rest0)) ELSE rest0)
                          ELSE (IF Len(fields) > 0 THEN TrimPrefix(rest0, delimiter)
                                ELSE rest0)
                 rest == TrimSpace(rest1)
                 endIdx == Index(rest, delimiter)
             IN  IF delimiter = <<>> THEN <<>>
                 ELSE IF endIdx > 0 THEN TrimSpace(SubSeq(rest, 1, endIdx))
                 ELSE <<>>

extractQuotedOrWord(s0) ==
    LET s == TrimSpace(s0)
    IN  IF Len(s) = 0 THEN <<>>
        ELSE IF s[1] = "\"" /\ findClosingQuote(Tail(s), "\"") > 0
        THEN SubSeq(s, 2, findClosingQuote(Tail(s), "\"") + 1)
        ELSE IF s[1] = "'" /\ findClosingQuote(Tail(s), "'") > 0
        THEN SubSeq(s, 2, findClosingQuote(Tail(s), "'") + 1)
        ELSE IF HasPrefix(s, <<"\"", "$", "(", "c", "a", "t", " ", "<", "<">>)
        THEN extractHeredocFromCat(s)
        ELSE IF Len(Fields(s)) > 0 THEN Fields(s)[1]
        ELSE <<>>

messagePatterns == <<
    <<" ", "-", "m", " ">>,
    <<" ", "-", "-", "m", "e", "s", "s", "a", "g", "e", " ">>,
    <<" ", "-", "-", "m", "e", "s", "s", "a", "g", "e", "=">>,
    <<" ", "-", "m", "=">> >>

extractCommitMessage(cmd) ==
    IF \E i \in 1..Len(messagePatterns) : Contains(cmd, messagePatterns[i])
    THEN LET p == messagePatterns[CHOOSE i \in 1..Len(messagePatterns) :
                      /\ Contains(cmd, messagePatterns[i])
                      /\ \A j \in 1..(i - 1) : ~Contains(cmd, messagePatterns[j])]
         IN  extractQuotedOrWord(SubSeq(cmd, Index(cmd, p) + Len(p) + 1, Len(cmd)))
    ELSE IF Contains(cmd, <<"<", "<">>) THEN extractHeredocMessage(cmd)
    ELSE <<>>

IsUpper(c) == c \in UpperLetters

IsLetter(c) == c \in UpperLetters \/ \E i \in 1..26 : LowerLetters[i] = c

\* regexp.Compile("^" + pattern) returns no error, for a pattern of literal
\* characters and brackets: a [ that no later ] closes is an error
regexpCompiles(pattern) ==
    \A i \in 1..Len(pattern) :
        pattern[i] = "[" => \E j \in (i + 1)..Len(pattern) : pattern[j] = "]"

\* re.MatchString(message) of the compiled "^" + pattern, for a pattern of
\* literal characters
prefixPatternMatches(pattern, message) == HasPrefix(message, pattern)

\* VersioningRule.EvaluateCommit
EvaluateCommit(r, command) ==
    LET Checked(branch, message) ==
        IF ~isCommitCommand(command) THEN Allow
        ELSE IF r.Tool = "jj" /\ Contains(command, GitCommit)
        THEN Deny("prefer jj over git: use 'jj commit' instead of 'git commit'", <<>>)
        ELSE IF isProtectedBranch(r, branch)
        THEN Deny("cannot commit directly to protected branch: ", branch)
        ELSE IF message = <<>> THEN Allow
        ELSE IF r.Commit.MaxLength > 0 /\ Len(message) > r.Commit.MaxLength
        THEN Deny("commit message exceeds max length of " \o ToString(r.Commit.MaxLength),
                  <<>>)
        ELSE IF r.Commit.RequireUppercase /\ ~IsUpper(message[1]) /\ IsLetter(message[1])
        THEN Deny("commit message must start with uppercase letter", <<>>)
        ELSE IF r.Commit.NoPeriod /\ HasSuffix(message, <<".">>)
        THEN Deny("commit message must not end with period", <<>>)
        ELSE IF r.Commit.RequirePeriod /\ ~HasSuffix(message, <<".">>)
        THEN Deny("commit message must end with period", <<>>)
        ELSE IF r.Commit.SingleLine /\ Contains(message, <<"\n">>)
        THEN Deny("commit message must be single line (no body)", <<>>)
        ELSE IF r.Commit.ForbidColons /\ Contains(message, <<":">>)
        THEN Deny("commit message must not contain colons (no conventional commit prefixes)",
                  <<>>)
        ELSE IF r.Commit.PrefixPattern # <<>>
                /\ regexpCompiles(r.Commit.PrefixPattern)
                /\ ~prefixPatternMatches(r.Commit.PrefixPattern, message)
        THEN Deny("commit message must match prefix pattern: ", r.Commit.PrefixPattern)
        ELSE Allow
    IN  Checked(extractBranchFromCommand(command), extractCommitMessage(command))

\* VersioningRule.Evaluate
VersioningRule_Evaluate(r, command) ==
    IF ~isGitCommand(command) THEN Allow
    ELSE IF isBlockedOperation(r, command) # <<>>
    THEN Deny("operation blocked by configuration: ", isBlockedOperation(r, command))
    ELSE IF violatesWorkflow(r, command) # ""
    THEN Deny(violatesWorkflow(r, command), <<>>)
    ELSE IF isCommitCommand(command) THEN EvaluateCommit(r, command)
    ELSE Allow

(***************************************************************************)
(* invariants rule, external hooks, reminders                              *)
(***************************************************************************)

\* InvariantsRule.Evaluate: env.violation is the name of the check the
\* request violates, "" when it violates none.
InvariantsRule_Evaluate(toolName, p, content) ==
    IF env.violation # "" THEN Deny(env.violation, <<>>) ELSE Allow

\* HookMatcher.Matches
HookMatches(h, toolName, paths) ==
    /\ \E i \in 1..Len(h.Tools) : h.Tools[i] = toolName
    /\ \/ Len(h.Paths) = 0
       \/ \E i \in 1..Len(paths), j \in 1..Len(h.Paths) : matchGlob(paths[i], h.Paths[j])

\* HookExecutor.Execute: env.hookOut[i] is what the child of hook i answers
HookExecute(i) == env.hookOut[i]

RECURSIVE JoinText(_, _)
JoinText(parts, sep) ==
    IF parts = <<>> THEN ""
    ELSE IF Len(parts) = 1 THEN parts[1]
    ELSE parts[1] \o sep \o JoinText(Tail(parts), sep)

\* The loop of evaluateHooks from hook i on: the result, and the hooks executed.
RECURSIVE hooksFrom(_, _, _, _, _, _)
hooksFrom(c, in, paths, i, warnings, done) ==
    IF i > Len(c.Hooks)
    THEN [res |-> [Allowed |-> TRUE, Reason |-> NoMsg,
                   Warning |-> JoinText(warnings, "; ")],
          executed |-> done]
    ELSE LET h == c.Hooks[i]
             r == HookExecute(i)
         IN  IF ~HookMatches(h, in.ToolName, paths)
             THEN hooksFrom(c, in, paths, i + 1, warnings, done)
             ELSE IF ~r.Allowed
             THEN [res |-> [Allowed |-> FALSE,
                            Reason |-> Msg(h.Name \o ": " \o r.Reason, <<>>),
                            Warning |-> ""],
                   executed |-> Append(done, h.Name)]
             ELSE hooksFrom(c, in, paths, i + 1,
                            IF r.Warning # ""
                            THEN Append(warnings, h.Name \o ": " \o r.Warning)
                            ELSE warnings,
                            Append(done, h.Name))

\* evaluateHooks with the loop begun at the second hook
evaluateHooks_FromSecond(c, in, paths) == hooksFrom(c, in, paths, 2, <<>>, <<>>)

\* Evaluator.evaluateHooks
evaluateHooks(c, in, paths) == hooksFrom(c, in, paths, 1, <<>>, <<>>)

\* Evaluator.evaluateReminders: env.triggered is what CheckReminders returns
evaluateReminders(c) ==
    IF c.Reminders = 0 THEN Allow
    ELSE IF Len(env.triggered) > 0
    THEN [Allowed |-> TRUE, Reason |-> NoMsg, Warning |-> JoinText(env.triggered, "; ")]
    ELSE Allow

\* Evaluator.withReminders
withReminders(c, res) ==
    IF ~res.Allowed THEN res
    ELSE LET reminderResult == evaluateReminders(c)
         IN  IF reminderResult.Warning # ""
             THEN IF res.Warning # ""
                  THEN [res EXCEPT !.Warning = res.Warning \o "; " \o reminderResult.Warning]
                  ELSE [res EXCEPT !.Warning = reminderResult.Warning]
             ELSE res

\* What a call of evaluateReminders leaves in the state manager st: with
\* reminders configured, IncrementTaskCount and Save have been called once.
remindersState(c, st) ==
    IF c.Reminders = 0 THEN st
    ELSE [st EXCEPT !.taskCount = @ + 1, !.saves = @ + 1]

\* the state manager after the calls of evaluateReminders among the checks
\* that ran
RECURSIVE stateAfter(_, _, _)
stateAfter(c, st, checks) ==
    IF checks = <<>> THEN st
    ELSE stateAfter(c,
                    IF Head(checks) = "reminders" THEN remindersState(c, st) ELSE st,
                    Tail(checks))

(***************************************************************************)
(* Evaluator.Evaluate and the rule adapters                                *)
(***************************************************************************)

\* The adapters below take the paths ExtractPaths returns for the request,
\* which Evaluate and each adapter compute anew with the same result.
evaluateWorkspace(c, in, paths) ==
    FirstDenial([i \in 1..Len(paths) |->
                    ConfineToWorkspace_Evaluate(c.Workspace, ArgCommand(paths[i]))])

evaluateScope(c, in, paths) ==
    FirstDenial([i \in 1..Len(paths) |->
                    ScopeToFiles_Evaluate(c.Scope, in.ToolName, ArgCommand(paths[i]))])

evaluateVersioning(c, in) ==
    IF in.command = <<>> THEN Allow
    ELSE LET AsResult(d) == [Allowed |-> d.Allowed, Reason |-> d.Reason, Warning |-> ""]
         IN  AsResult(VersioningRule_Evaluate(c.Versioning, in.command[1]))

evaluateIncremental(c) == IncrementalRule_Evaluate(c.Incremental, env.count)

evaluateInvariants(c, in, paths) ==
    FirstDenial([i \in 1..Len(paths) |->
                    InvariantsRule_Evaluate(in.ToolName, paths[i], <<>>)])

\* An outcome of Evaluate: the Result, the checks that ran, the hooks executed.
Outcome(res, checks, hooks) == [res |-> res, ran |-> checks, executed |-> hooks]

\* evaluator.go 129-130
EvalReminders(c, in, checks, hooks) ==
    Outcome(evaluateReminders(c), Append(checks, "reminders"), hooks)

\* evaluator.go 120-127
EvalHooks(c, in, paths, checks) ==
    LET configured == Len(c.Hooks) > 0
        checks2 == IF configured THEN Append(checks, "hooks") ELSE checks
        After(h) ==
            IF ~h.res.Allowed THEN Outcome(h.res, checks2, h.executed)
            ELSE IF h.res.Warning # ""
            THEN Outcome(withReminders(c, h.res), Append(checks2, "reminders"), h.executed)
            ELSE EvalReminders(c, in, checks2, h.executed)
    IN  After(IF configured THEN evaluateHooks(c, in, paths)
              ELSE [res |-> Allow, executed |-> <<>>])

\* evaluator.go 113-118
EvalInvariants(c, in, paths, checks) ==
    LET applies == c.Rules.Invariants /\ isModificationTool(in.ToolName)
        checks2 == IF applies THEN Append(checks, "invariants") ELSE checks
        After(r) ==
            IF ~r.Allowed THEN Outcome(r, checks2, <<>>)
            ELSE EvalHooks(c, in, paths, checks2)
    IN  After(IF applies THEN evaluateInvariants(c, in, paths) ELSE Allow)

\* evaluator.go 104-111 with the warning returned as it is
EvalIncremental_WarnUntracked(c, in, paths, checks) ==
    LET applies == c.Rules.Incremental /\ isModificationTool(in.ToolName)
        checks2 == IF applies THEN Append(checks, "incremental") ELSE checks
        After(r) ==
            IF ~r.Allowed THEN Outcome(r, checks2, <<>>)
            ELSE IF r.Warning # "" THEN Outcome(r, checks2, <<>>)
            ELSE EvalInvariants(c, in, paths, checks2)
    IN  After(IF applies THEN evaluateIncremental(c) ELSE Allow)

\* evaluator.go 104-111
EvalIncremental(c, in, paths, checks) ==
    LET applies == c.Rules.Incremental /\ isModificationTool(in.ToolName)
        checks2 == IF applies THEN Append(checks, "incremental") ELSE checks
        After(r) ==
            IF ~r.Allowed THEN Outcome(r, checks2, <<>>)
            ELSE IF r.Warning # ""
            THEN Outcome(withReminders(c, r), Append(checks2, "reminders"), <<>>)
            ELSE EvalInvariants(c, in, paths, checks2)
    IN  After(IF applies THEN evaluateIncremental(c) ELSE Allow)

\* evaluator.go 97-102
EvalVersioning(c, in, paths, checks) ==
    LET applies == c.Rules.Versioning /\ in.ToolName = Bash
        checks2 == IF applies THEN Append(checks, "versioning") ELSE checks
        After(r) ==
            IF ~r.Allowed THEN Outcome(r, checks2, <<>>)
            ELSE EvalIncremental(c, in, paths, checks2)
    IN  After(IF applies THEN evaluateVersioning(c, in) ELSE Allow)

\* evaluator.go 90-95
EvalScope(c, in, paths, checks) ==
    LET applies == c.Rules.Scope
        checks2 == IF applies THEN Append(checks, "scope") ELSE checks
        After(r) ==
            IF ~r.Allowed THEN Outcome(r, checks2, <<>>)
            ELSE EvalVersioning(c, in, paths, checks2)
    IN  After(IF applies THEN evaluateScope(c, in, paths) ELSE Allow)

\* evaluator.go 83-88
EvalWorkspace(c, in, paths, checks) ==
    LET applies == c.Rules.Workspace
        checks2 == IF applies THEN Append(checks, "workspace") ELSE checks
        After(r) ==
            IF ~r.Allowed THEN Outcome(r, checks2, <<>>)
            ELSE EvalScope(c, in, paths, checks2)
    IN  After(IF applies THEN evaluateWorkspace(c, in, paths) ELSE Allow)

\* evaluator.go 75-81
EvalProtected(c, in, paths, checks) ==
    IF \E i \in 1..Len(paths) : IsAlwaysProtected(paths[i])
    THEN Outcome(Deny(ProtectedReason, <<>>), Append(checks, "protected"), <<>>)
    ELSE EvalWorkspace(c, in, paths, Append(checks, "protected"))

\* evaluator.go 66-81 with the protected-path check made before commands.block
EvalCommands_ProtectedFirst(c, in, paths, checks) ==
    IF \E i \in 1..Len(paths) : IsAlwaysProtected(paths[i])
    THEN Outcome(Deny(ProtectedReason, <<>>), Append(checks, "protected"), <<>>)
    ELSE IF in.ToolName = Bash /\ in.command # <<>>
    THEN LET blocked == isCommandBlocked(c, in.command[1])
         IN  IF blocked # <<>>
             THEN Outcome(Deny("command is blocked by configuration: ", blocked),
                          checks \o <<"protected", "commands.block">>, <<>>)
             ELSE EvalWorkspace(c, in, paths, checks \o <<"protected", "commands.block">>)
    ELSE EvalWorkspace(c, in, paths, Append(checks, "protected"))

\* evaluator.go 66-73
EvalCommands(c, in, paths, checks) ==
    LET applies == in.ToolName = Bash /\ in.command # <<>>
        checks2 == IF applies THEN Append(checks, "commands.block") ELSE checks
        After(blocked) ==
            IF blocked # <<>>
            THEN Outcome(Deny("command is blocked by configuration: ", blocked), checks2, <<>>)
            ELSE EvalProtected(c, in, paths, checks2)
    IN  After(IF applies THEN isCommandBlocked(c, in.command[1]) ELSE <<>>)

\* evaluator.go 61-64 with the shortcut for the other tools left out
EvalFilesystem_NoShortcut(c, in, checks) ==
    EvalCommands(c, in, ExtractPaths(in.ToolName, in), Append(checks, "filesystem"))

\* evaluator.go 61-64
EvalFilesystem(c, in, checks) ==
    IF ~isFilesystemTool(in.ToolName)
    THEN Outcome(withReminders(c, Allow), checks \o <<"filesystem", "reminders">>, <<>>)
    ELSE EvalCommands(c, in, ExtractPaths(in.ToolName, in), Append(checks, "filesystem"))

\* Evaluator.Evaluate
Evaluator_Evaluate(c, in) ==
    IF isToolBlocked(c, in.ToolName)
    THEN Outcome(Deny("tool is blocked by configuration: ", in.ToolName),
                 <<"tools.block">>, <<>>)
    ELSE IF ~isToolAllowed(c, in.ToolName)
    THEN Outcome(Deny("tool is not in allowed list: ", in.ToolName),
                 <<"tools.block", "tools.allow">>, <<>>)
    ELSE EvalFilesystem(c, in, <<"tools.block", "tools.allow">>)

(***************************************************************************)
(* the runs of the hook                                                    *)
(***************************************************************************)

Task == <<"T", "a", "s", "k">>

\* the requests the runs are given
Requests == {
    [ToolName |-> Bash, command |-> <<<<"g", "o", " ", "t", "e", "s", "t", " ", ".", "/", ".", ".", ".">>>>, file_path |-> <<>>, path |-> <<>>, pattern |-> <<>>],
    [ToolName |-> Bash, command |-> <<<<"s", "u", "d", "o", " ", "r", "m", " ", "-", "r", "f", " ", "/">>>>, file_path |-> <<>>, path |-> <<>>, pattern |-> <<>>],
    [ToolName |-> Bash, command |-> <<<<"G", "O", "M", "O", "D", "C", "A", "C", "H", "E", "=", "/", "t", "m", "p", "/", "m", "o", "d", " ", "g", "o", " ", "t", "e", "s", "t", " ", ".", "/", ".", ".", ".">>>>, file_path |-> <<>>, path |-> <<>>, pattern |-> <<>>],
    [ToolName |-> Bash, command |-> <<<<"c", "a", "t", " ", "/", "h", "/", ".", "s", "s", "h", "/", "i", "d", "_", "r", "s", "a">>>>, file_path |-> <<>>, path |-> <<>>, pattern |-> <<>>],
    [ToolName |-> Bash, command |-> <<<<"g", "i", "t", " ", "c", "o", "m", "m", "i", "t", " ", "-", "m", " ", "\"", "f", "i", "x", "\"">>>>, file_path |-> <<>>, path |-> <<>>, pattern |-> <<>>],
    [ToolName |-> Bash, command |-> <<<<"c", "a", "t", " ", "-", "a", "=", ".", "e", "n", "v", " ", "-", "b", "=", "/", "e", "t", "c", " ", "x">>>>, file_path |-> <<>>, path |-> <<>>, pattern |-> <<>>],
    [ToolName |-> Bash, command |-> <<>>, file_path |-> <<>>, path |-> <<>>, pattern |-> <<>>],
    [ToolName |-> Read, command |-> <<>>, file_path |-> <<<<"/", "e", "t", "c", "/", "p", "a", "s", "s", "w", "d">>>>, path |-> <<>>, pattern |-> <<>>],
    [ToolName |-> Read, command |-> <<>>, file_path |-> <<<<"m", "a", "i", "n", ".", "g", "o">>>>, path |-> <<>>, pattern |-> <<>>],
    [ToolName |-> Read, command |-> <<>>, file_path |-> <<<<"/", "h", "/", ".", "s", "s", "h", "/", "i", "d", "_", "r", "s", "a">>>>, path |-> <<>>, pattern |-> <<>>],
    [ToolName |-> Write, command |-> <<>>, file_path |-> <<<<"s", "r", "c", "/", "m", "a", "i", "n", ".", "g", "o">>>>, path |-> <<>>, pattern |-> <<>>],
    [ToolName |-> Write, command |-> <<>>, file_path |-> <<<<"v", "e", "n", "d", "o", "r", "/", "l", "i", "b", ".", "g", "o">>>>, path |-> <<>>, pattern |-> <<>>],
    [ToolName |-> Write, command |-> <<>>, file_path |-> <<<<".", "w", "a", "t", "c", "h", "m", "a", "n", ".", "y", "m", "l">>>>, path |-> <<>>, pattern |-> <<>>],
    [ToolName |-> Write, command |-> <<>>, file_path |-> <<<<"/", "t", "m", "p", "/", "o", "u", "t", ".", "t", "x", "t">>>>, path |-> <<>>, pattern |-> <<>>],
    [ToolName |-> Write, command |-> <<>>, file_path |-> <<>>, path |-> <<>>, pattern |-> <<>>],
    [ToolName |-> Edit, command |-> <<>>, file_path |-> <<<<"v", "e", "n", "d", "o", "r", "/", "l", "i", "b", ".", "g", "o">>>>, path |-> <<>>, pattern |-> <<>>],
    [ToolName |-> Edit, command |-> <<>>, file_path |-> <<<<".", ".", "/", ".", "n", "e", "t", "r", "c">>>>, path |-> <<>>, pattern |-> <<>>],
    [ToolName |-> NotebookEdit, command |-> <<>>, file_path |-> <<<<"v", "e", "n", "d", "o", "r", "/", "l", "i", "b", ".", "g", "o">>>>, path |-> <<>>, pattern |-> <<>>],
    [ToolName |-> NotebookEdit, command |-> <<>>, file_path |-> <<<<"/", "h", "/", ".", "s", "s", "h", "/", "i", "d", "_", "r", "s", "a">>>>, path |-> <<>>, pattern |-> <<>>],
    [ToolName |-> NotebookEdit, command |-> <<>>, file_path |-> <<<<"s", "r", "c", "/", "m", "a", "i", "n", ".", "g", "o">>>>, path |-> <<>>, pattern |-> <<>>],
    [ToolName |-> Glob, command |-> <<>>, file_path |-> <<>>, path |-> <<<<".">>>>, pattern |-> <<<<"*", "*", "/", "*", ".", "g", "o">>>>],
    [ToolName |-> Glob, command |-> <<>>, file_path |-> <<>>, path |-> <<>>, pattern |-> <<<<"/", "h", "/", ".", "a", "w", "s", "/", "*">>>>],
    [ToolName |-> Grep, command |-> <<>>, file_path |-> <<>>, path |-> <<<<"/", "h", "/", ".", "a", "w", "s", "/", "c", "r", "e", "d", "e", "n", "t", "i", "a", "l", "s">>>>, pattern |-> <<>>],
    [ToolName |-> Grep, command |-> <<>>, file_path |-> <<>>, path |-> <<<<"s", "r", "c">>>>, pattern |-> <<>>],
    [ToolName |-> WebSearch, command |-> <<<<"s", "u", "d", "o", " ", "r", "m", " ", "-", "r", "f", " ", "/">>>>, file_path |-> <<<<"/", "h", "/", ".", "s", "s", "h", "/", "i", "d", "_", "r", "s", "a">>>>, path |-> <<>>, pattern |-> <<>>],
    [ToolName |-> Task, command |-> <<>>, file_path |-> <<>>, path |-> <<>>, pattern |-> <<>>] }

NoRequest == [ToolName |-> <<>>, command |-> <<>>, file_path |-> <<>>, path |-> <<>>,
              pattern |-> <<>>]

NoResult == [Allowed |-> TRUE, Reason |-> NoMsg, Warning |-> "none"]

ToolsConfigs == {
    [Allow |-> <<>>, Block |-> <<>>],
    [Allow |-> <<<<"r", "e", "a", "d">>, Write, NotebookEdit, Task>>, Block |-> <<<<"b", "a", "s", "h">>>>] }

\* commands.block, and the order in which the run ranges over its maps
CommandsConfigs == {
    [Block |-> <<>>, mapRev |-> FALSE],
    [Block |-> <<<<"s", "u", "d", "o">>, <<"r", "m", " ", "-", "r", "f">>>>, mapRev |-> TRUE] }

\* a rule switch with the lists the rule reads
WorkspaceConfigs == {
    [on |-> FALSE, Allow |-> <<>>, Block |-> <<>>],
    [on |-> TRUE, Allow |-> <<<<"/", "t", "m", "p", "/">>, <<"~", "/", ".", "s", "s", "h", "/">>>>, Block |-> <<<<".", "e", "n", "v">>>>] }

ScopeConfigs == {
    [on |-> FALSE, Allow |-> <<>>, Block |-> <<>>],
    [on |-> TRUE, Allow |-> <<<<"s", "r", "c", "/", "*", "*", "/", "*", ".", "g", "o">>>>, Block |-> <<<<"v", "e", "n", "d", "o", "r", "/", "*", "*">>>>] }

NoCommit == [MaxLength |-> 0, RequireUppercase |-> FALSE, NoPeriod |-> FALSE,
             RequirePeriod |-> FALSE, SingleLine |-> FALSE, ForbidColons |-> FALSE,
             PrefixPattern |-> <<>>]

VersioningConfigs == {
    [on |-> FALSE, Commit |-> NoCommit, Branches |-> [Protected |-> <<>>],
     Operations |-> [Block |-> <<>>], Workflow |-> "", Tool |-> ""],
    [on |-> TRUE, Commit |-> [NoCommit EXCEPT !.RequireUppercase = TRUE],
     Branches |-> [Protected |-> <<>>], Operations |-> [Block |-> <<>>],
     Workflow |-> "linear", Tool |-> ""] }

\* the limits of the incremental rule in the runs
RunMaxFiles == 4

RunWarnRatio == 50

IncOff == [on |-> FALSE, MaxFiles |-> 0, WarnRatio |-> 0, count |-> 0]

IncOn(count) == [on |-> TRUE, MaxFiles |-> RunMaxFiles, WarnRatio |-> RunWarnRatio,
                 count |-> count]

InvOff == [on |-> FALSE, violation |-> ""]

InvOn(violation) == [on |-> TRUE, violation |-> violation]

\* the incremental switch with its limits and the count the counter returns,
\* and the invariants switch with the check the request violates
ModificationConfigs == {
    <<IncOff, InvOff>>,
    <<IncOn(1), InvOn("naming: handlers")>>,
    <<IncOn(RunMaxFiles - 1), InvOn("naming: handlers")>>,
    <<IncOn(RunMaxFiles - 1), InvOn("")>>,
    <<IncOn(RunMaxFiles), InvOn("")>> }

HookAllow == [Allowed |-> TRUE, Reason |-> "", Warning |-> ""]

HookAdvise == [Allowed |-> TRUE, Reason |-> "", Warning |-> "consider this"]

HookDeny == [Allowed |-> FALSE, Reason |-> "test denial", Warning |-> ""]

RunHooks == <<
    [Name |-> "lint", Tools |-> <<Write, Edit, NotebookEdit>>, Paths |-> <<<<"*", "*", "/", "*", ".", "g", "o">>>>],
    [Name |-> "guard", Tools |-> <<Write, Bash, NotebookEdit>>, Paths |-> <<>>] >>

\* the hooks configured and what their children answer
HooksConfigs == {
    [Hooks |-> <<>>, out |-> <<>>],
    [Hooks |-> RunHooks, out |-> <<HookAdvise, HookDeny>>],
    [Hooks |-> RunHooks, out |-> <<HookAdvise, HookAllow>>] }

RemindersConfigs == {
    [Reminders |-> 0, triggered |-> <<>>],
    [Reminders |-> 1, triggered |-> <<"run the tests">>] }

MakeConfig(t, cb, w, s, v, i, n, h, r) ==
    [Rules |-> [Workspace |-> w.on, Scope |-> s.on, Versioning |-> v.on,
                Incremental |-> i.on, Invariants |-> n.on],
     Workspace |-> [Allow |-> w.Allow, Block |-> w.Block],
     Scope |-> [Allow |-> s.Allow, Block |-> s.Block],
     Versioning |-> [Commit |-> v.Commit, Branches |-> v.Branches,
                     Operations |-> v.Operations, Workflow |-> v.Workflow, Tool |-> v.Tool],
     Incremental |-> [MaxFiles |-> i.MaxFiles, WarnRatio |-> i.WarnRatio],
     Commands |-> [Block |-> cb.Block], Tools |-> t, Hooks |-> h.Hooks, Reminders |-> r.Reminders]

MakeEnv(i, n, h, r, rev) ==
    [mapRev |-> rev, count |-> i.count, violation |-> n.violation, hookOut |-> h.out,
     triggered |-> r.triggered, taskCount |-> 0, saves |-> 0]

\* The state when the process has loaded its configuration and has not yet
\* read the request.
Init ==
    /\ \E t \in ToolsConfigs, cb \in CommandsConfigs, w \in WorkspaceConfigs,
          s \in ScopeConfigs, v \in VersioningConfigs, m \in ModificationConfigs,
          h \in HooksConfigs, r \in RemindersConfigs :
            /\ cfg = MakeConfig(t, cb, w, s, v, m[1], m[2], h, r)
            /\ env = MakeEnv(m[1], m[2], h, r, cb.mapRev)
    /\ cwdErr = FALSE
    /\ input = NoRequest
    /\ result = NoResult
    /\ ran = <<>>
    /\ executed = <<>>
    /\ fn = <<>>

\* main: the request is read and Evaluator.Evaluate decides it
Evaluate ==
    /\ input = NoRequest
    /\ \E in \in Requests :
          \E o \in {Evaluator_Evaluate(cfg, in)} :
              /\ input' = in
              /\ result' = o.res
              /\ ran' = o.ran
              /\ executed' = o.executed
              /\ env' = stateAfter(cfg, env, o.ran)
    /\ UNCHANGED <<cwdErr, cfg, fn>>

Next == Evaluate

Spec == Init /\ [][Next]_vars

(***************************************************************************)
(* Properties of Evaluator.Evaluate, checked under Spec                    *)
(***************************************************************************)

Range(s) == {s[i] : i \in DOMAIN s}

\* a request has been decided
Decided == input # NoRequest

\* the order of the checks in Evaluate
CheckOrder == <<"tools.block", "tools.allow", "filesystem", "commands.block", "protected",
                "workspace", "scope", "versioning", "incremental", "invariants", "hooks",
                "reminders">>

RankOf(check) == CHOOSE k \in 1..Len(CheckOrder) : CheckOrder[k] = check

\* What one check alone decides for the request, where it applies: each is
\* stated from its own condition and rule, not from the chain of Evaluate.
CheckDecision(check, c, in) ==
    LET paths == ExtractPaths(in.ToolName, in)
    IN  CASE check = "tools.block" ->
                IF isToolBlocked(c, in.ToolName)
                THEN Deny("tool is blocked by configuration: ", in.ToolName) ELSE Allow
          [] check = "tools.allow" ->
                IF ~isToolAllowed(c, in.ToolName)
                THEN Deny("tool is not in allowed list: ", in.ToolName) ELSE Allow
          [] check = "commands.block" ->
                IF in.ToolName = Bash /\ in.command # <<>>
                   /\ isCommandBlocked(c, in.command[1]) # <<>>
                THEN Deny("command is blocked by configuration: ",
                          isCommandBlocked(c, in.command[1]))
                ELSE Allow
          [] check = "protected" ->
                IF \E i \in 1..Len(paths) : IsAlwaysProtected(paths[i])
                THEN Deny(ProtectedReason, <<>>) ELSE Allow
          [] check = "workspace" ->
                IF c.Rules.Workspace THEN evaluateWorkspace(c, in, paths) ELSE Allow
          [] check = "scope" ->
                IF c.Rules.Scope THEN evaluateScope(c, in, paths) ELSE Allow
          [] check = "versioning" ->
                IF c.Rules.Versioning /\ in.ToolName = Bash
                THEN evaluateVersioning(c, in) ELSE Allow
          [] check = "incremental" ->
                IF c.Rules.Incremental /\ in.ToolName \in {Write, Edit, NotebookEdit}
                THEN evaluateIncremental(c) ELSE Allow
          [] check = "invariants" ->
                IF c.Rules.Invariants /\ in.ToolName \in {Write, Edit, NotebookEdit}
                THEN evaluateInvariants(c, in, paths) ELSE Allow
          [] check = "hooks" ->
                IF Len(c.Hooks) > 0 THEN evaluateHooks(c, in, paths).res ELSE Allow
          [] OTHER -> Allow

\* the rank of the earliest check that denies the request, 0 when none does
EarliestDenying(c, in) ==
    LET denying == {k \in 1..Len(CheckOrder) : ~CheckDecision(CheckOrder[k], c, in).Allowed}
    IN  IF denying = {} THEN 0
        ELSE CHOOSE k \in denying : \A l \in denying : k <= l

\* C1: Evaluate runs its checks in the one fixed order (tool blocklist, tool
\* allowlist, non-filesystem shortcut, commands.block, protected oracle,
\* workspace, scope, versioning, incremental, invariants, hooks); a denied
\* request was denied by the last check that ran, that check is the earliest
\* one in the order that denies the request, the reason returned is that
\* check's reason, and every check that ran before it allowed.
EvaluationOrder ==
    Decided =>
        /\ \A i, j \in 1..Len(ran) : i < j => RankOf(ran[i]) < RankOf(ran[j])
        /\ \A i \in 1..(Len(ran) - 1) : CheckDecision(ran[i], cfg, input).Allowed
        /\ ~result.Allowed =>
              LET k == EarliestDenying(cfg, input)
              IN  /\ k # 0
                  /\ ran[Len(ran)] = CheckOrder[k]
                  /\ result.Reason = CheckDecision(CheckOrder[k], cfg, input).Reason

\* A Bash command that matches commands.block and names a path outside the
\* workspace has been denied with the command-blocked reason.
EvaluationOrderWitness ==
    /\ Decided
    /\ input.ToolName = Bash
    /\ ~CheckDecision("commands.block", cfg, input).Allowed
    /\ ~CheckDecision("workspace", cfg, input).Allowed
    /\ ~result.Allowed
    /\ result.Reason.text = "command is blocked by configuration: "
    /\ ran = <<"tools.block", "tools.allow", "filesystem", "commands.block">>

\* the tools of the path-extractor table
PathTools == {Bash, Read, Write, Edit, NotebookEdit, Glob, Grep}

\* C2: whatever the configuration, a request of a tool of the path-extractor
\* table (Bash, Read, Write, Edit, NotebookEdit, Glob, Grep) that touches a
\* path the protected oracle matches is denied.
ProtectedAlwaysDenied ==
    (/\ Decided
     /\ input.ToolName \in PathTools
     /\ \E p \in Range(ExtractPaths(input.ToolName, input)) : IsAlwaysProtected(p))
        => ~result.Allowed

\* C3: when the incremental rule allowed a modification request with a
\* warning, the invariants rule and the hooks are still applied: a denial by
\* the invariants rule, or else by a hook, is the final decision with that
\* reason.
WarningKeepsOutcome ==
    (/\ Decided
     /\ "incremental" \in Range(ran)
     /\ evaluateIncremental(cfg).Allowed
     /\ evaluateIncremental(cfg).Warning # "")
        => LET inv == CheckDecision("invariants", cfg, input)
               hk == CheckDecision("hooks", cfg, input)
           IN  /\ ~inv.Allowed => (~result.Allowed /\ result.Reason = inv.Reason)
               /\ (inv.Allowed /\ ~hk.Allowed) =>
                      (~result.Allowed /\ result.Reason = hk.Reason)

ModificationRulesReachAll ==
    (Decided /\ input.ToolName \in {Write, Edit, NotebookEdit})
        => LET paths == ExtractPaths(input.ToolName, input)
           IN  /\ (/\ cfg.Rules.Scope
                   /\ \E p \in Range(paths) :
                         \/ scopeIsBlocked(cfg.Scope, p)
                         \/ Len(cfg.Scope.Allow) > 0 /\ ~isInScope(cfg.Scope, p))
                      => ~result.Allowed
               /\ (/\ cfg.Rules.Incremental
                   /\ cfg.Incremental.MaxFiles > 0
                   /\ env.count >= cfg.Incremental.MaxFiles)
                      => ~result.Allowed
               /\ (cfg.Rules.Invariants /\ paths # <<>> /\ env.violation # ""
                   /\ ~(cfg.Rules.Incremental /\ evaluateIncremental(cfg).Warning # ""))
                      => ~result.Allowed

\* the text of a reason
ReasonText(res) == <<res.Reason.text, res.Reason.arg>>

\* C6: a returned Result has a non-empty Reason exactly when it is not
\* allowed, a non-empty Warning only when it is allowed, and never both.
ReasonIffDenied ==
    Decided =>
        /\ (ReasonText(result) # <<"", <<>>>>) <=> ~result.Allowed
        /\ result.Warning # "" => result.Allowed
        /\ ~(ReasonText(result) # <<"", <<>>>> /\ result.Warning # "")

\* A request has been denied with a reason and no warning, by the incremental
\* rule at its limit.
ReasonIffDeniedWitness ==
    /\ Decided
    /\ ~result.Allowed
    /\ ran[Len(ran)] = "incremental"
    /\ result.Reason.text # ""
    /\ result.Warning = ""

(***************************************************************************)
(* The workspace rule on its own: a command is parsed, then                *)
(* ConfineToWorkspace.Evaluate decides it.                                 *)
(***************************************************************************)

\* the commands the rule is given
WorkspaceCommands == {
    <<"c", "a", "t", " ", "x">>,
    <<"c", "a", "t", " ", "/", "t", "m", "p", "/", "x">>,
    <<"c", "a", "t", " ", ".", "e", "n", "v">>,
    <<"c", "a", "t", " ", "/", "t", "m", "p", "/", "s", "e", "c", "r", "e", "t", "/", "x">>,
    <<"c", "a", "t", " ", "/", "h", "/", ".", "s", "s", "h", "/", "i", "d", "_", "r", "s", "a">>,
    <<"c", "a", "t", " ", "/", "e", "t", "c", "/", "p", "a", "s", "s", "w", "d">>,
    <<"G", "O", "M", "O", "D", "C", "A", "C", "H", "E", "=", "/", "t", "m", "p", "/", "m", "o", "d", " ", "g", "o", " ", "t", "e", "s", "t", " ", ".", "/", ".", ".", ".">>,
    <<"g", "o", " ", "t", "e", "s", "t", " ", "-", "c", "o", "v", "e", "r", "p", "r", "o", "f", "i", "l", "e", "=", "/", "t", "m", "p", "/", "c", "o", "v", "e", "r", ".", "o", "u", "t", " ", ".", "/", ".", ".", ".">>,
    <<"c", "a", "t", " ", "-", "o", "=", "/", "e", "t", "c", "/", "x", " ", "-", "o", "=", ".", "/", "y">>,
    <<"c", "a", "t", " ", "a", " ", "/", "e", "t", "c", "/", "p", "a", "s", "s", "w", "d", " ", "b">>,
    <<"c", "a", "t", " ", ".", "e", "n", "v", " ", "/", "e", "t", "c", "/", "p", "a", "s", "s", "w", "d">>,
    <<"F", "O", "O", "=", " ", "c", "a", "t", " ", "x">>,
    <<"c", "a", "t">>,
    <<"c", "a", "t", " ", "-", "v", " ", "x">>,
    <<"A", "=", "/", "e", "t", "c", " ", "B", "=", ".", "e", "n", "v", " ", "c", "a", "t", " ", "-", "a", "=", "/", "t", "m", "p", "/", "x", " ", "-", "b", "=", ".", "w", "a", "t", "c", "h", "m", "a", "n", ".", "y", "m", "l">>,
    <<"c", "a", "t", " ", ".", ".", "/", "p", "/", "x", " ", ".", ".", "/", "q">>,
    <<"c", "a", "t", " ", "/", "t", "m", "p", "/", ".", ".", "/", "e", "t", "c", "/", "p", "a", "s", "s", "w", "d">>,
    <<"c", "a", "t", " ", "/", "t", "m", "p", "/", "x", "/", ".", ".", "/", "y">>,
    <<"m", "a", "k", "e", " ", ".", ".", "/", "x">>,
    <<"g", "i", "t", " ", "/", "e", "t", "c", "/", "p", "a", "s", "s", "w", "d">>,
    <<"g", "i", "t", " ", "s", "t", "a", "t", "u", "s", " ", "-", "o", " ", "/", "e", "t", "c", "/", "x">>,
    <<"A", "=", "/", "e", "t", "c", "/", "x", " ", "A", "=", ".", "/", "y", " ", "c", "a", "t", " ", "z">>,
    <<>> }

\* the lists the rule is built with
WorkspaceRules == {
    [on |-> TRUE, Allow |-> <<>>, Block |-> <<>>],
    [on |-> TRUE, Allow |-> <<<<"/", "t", "m", "p", "/">>>>, Block |-> <<>>],
    [on |-> TRUE, Allow |-> <<>>, Block |-> <<<<".", "e", "n", "v">>>>],
    [on |-> TRUE, Allow |-> <<<<"/", "t", "m", "p", "/">>, <<"~", "/", ".", "s", "s", "h", "/">>, <<".", "e", "n", "v">>>>,
     Block |-> <<<<".", "e", "n", "v">>, <<"/", "t", "m", "p", "/", "s", "e", "c", "r", "e", "t", "/">>>>] }

\* a configuration with the workspace rule w and nothing else
WorkspaceOnly(w) ==
    MakeConfig([Allow |-> <<>>, Block |-> <<>>], [Block |-> <<>>], w,
               [on |-> FALSE, Allow |-> <<>>, Block |-> <<>>],
               [on |-> FALSE, Commit |-> NoCommit, Branches |-> [Protected |-> <<>>],
                Operations |-> [Block |-> <<>>], Workflow |-> "", Tool |-> ""],
               IncOff, InvOff, [Hooks |-> <<>>], [Reminders |-> 0])

QuietEnv(rev) ==
    MakeEnv(IncOff, InvOff, [out |-> <<>>], [triggered |-> <<>>], rev)

InitWorkspace ==
    /\ \E raw \in WorkspaceCommands, w \in WorkspaceRules, rev \in BOOLEAN :
          /\ cfg = WorkspaceOnly(w)
          /\ env = QuietEnv(rev)
          /\ fn = [stage |-> "command", raw |-> raw, cmd |-> EmptyCommand(raw),
                   candidates |-> <<>>, decision |-> Allow]
    /\ cwdErr \in BOOLEAN
    /\ input = NoRequest
    /\ result = NoResult
    /\ ran = <<>>
    /\ executed = <<>>

\* parser.Parse on the command
ParseCommand ==
    /\ fn.stage = "command"
    /\ fn' = [fn EXCEPT !.stage = "parsed", !.cmd = Parse(fn.raw)]
    /\ UNCHANGED <<cwdErr, cfg, env, input, result, ran, executed>>

\* ConfineToWorkspace.Evaluate on the parsed command
ConfineEvaluate ==
    /\ fn.stage = "parsed"
    /\ fn' = [fn EXCEPT !.stage = "decided",
                        !.candidates = collectPathCandidates(fn.cmd),
                        !.decision = ConfineToWorkspace_Evaluate(cfg.Workspace, fn.cmd)]
    /\ UNCHANGED <<cwdErr, cfg, env, input, result, ran, executed>>

NextWorkspace == ParseCommand \/ ConfineEvaluate

SpecWorkspace == InitWorkspace /\ [][NextWorkspace]_vars

\* the absolute form of a path, the working directory being known
AbsoluteForm(p) == IF IsAbs(p) THEN Clean(p) ELSE Clean(Join(Cwd, p))

\* the absolute form is the project root or lies under it
InsideRoot(p) ==
    \/ AbsoluteForm(p) = Cwd
    \/ HasPrefix(AbsoluteForm(p), Cwd \o <<"/">>)

\* what the rule decides for one candidate path, in the order of the claim
PathVerdict(r, p) ==
    IF IsAlwaysProtected(p) THEN Deny(ProtectedReason, <<>>)
    ELSE IF \E b \in Range(r.Block) : matchPath(p, b)
    THEN Deny("path is blocked by configuration: ", p)
    ELSE IF InsideRoot(p) THEN Allow
    ELSE IF \E a \in Range(r.Allow) : matchPath(p, a) THEN Allow
    ELSE Deny(OutsideReason, <<>>)

\* C7: with the working directory known, ConfineToWorkspace.Evaluate decides
\* each candidate in the order protected oracle (deny), workspace.block
\* (deny, also inside the root and also when workspace.allow matches),
\* inside the root (accept), workspace.allow (accept), else deny as outside
\* the workspace; the command is allowed exactly when every candidate is
\* accepted, and a denial carries the reason of the first candidate refused.
WorkspaceOrder ==
    (fn.stage = "decided" /\ ~cwdErr) =>
        LET refused == {i \in 1..Len(fn.candidates) :
                            ~PathVerdict(cfg.Workspace, fn.candidates[i]).Allowed}
        IN  /\ fn.decision.Allowed <=> refused = {}
            /\ refused # {} =>
                  LET first == CHOOSE i \in refused : \A j \in refused : i <= j
                  IN  fn.decision = PathVerdict(cfg.Workspace, fn.candidates[first])

\* A path under an allowed directory that a block entry matches has been
\* refused as blocked, and a blocked path inside the root likewise.
WorkspaceOrderWitness ==
    /\ fn.stage = "decided"
    /\ ~cwdErr
    /\ fn.raw \in {<<"c", "a", "t", " ", "/", "t", "m", "p", "/", "s", "e", "c", "r", "e", "t", "/", "x">>, <<"c", "a", "t", " ", ".", "e", "n", "v">>}
    /\ isBlocked(cfg.Workspace, fn.candidates[1])
    /\ isAllowed(cfg.Workspace, fn.candidates[1])
    /\ ~fn.decision.Allowed
    /\ fn.decision.Reason = Msg("path is blocked by configuration: ", fn.candidates[1])

\* how often x occurs in s
Occurrences(s, x) == Cardinality({i \in 1..Len(s) : s[i] = x})

\* C9: the candidate paths of a parsed command are exactly its positional
\* args, its non-empty flag values and its environment values, each as often
\* as the parsed command holds it; so, the working directory being known, the
\* rule denies the command as soon as one of them is a path outside the
\* project root that no workspace.allow entry matches, whatever the others
\* are.
CandidatesDecide ==
    fn.stage = "decided" =>
        LET flagValues == SelectSeq(MapValues(fn.cmd.Flags), LAMBDA v : v # <<>>)
            expected == fn.cmd.Args \o flagValues \o MapValues(fn.cmd.Env)
        IN  /\ Len(fn.candidates) = Len(expected)
            /\ \A x \in Range(expected) :
                  Occurrences(fn.candidates, x) = Occurrences(expected, x)
            /\ ~cwdErr =>
                  \A x \in Range(expected) :
                      (/\ x # <<>>
                       /\ ~InsideRoot(x)
                       /\ ~\E a \in Range(cfg.Workspace.Allow) : matchPath(x, a))
                          => ~fn.decision.Allowed

\* The command whose environment value alone lies outside the root has been
\* denied as outside the workspace.
CandidatesDecideWitness ==
    /\ fn.stage = "decided"
    /\ ~cwdErr
    /\ fn.raw = <<"G", "O", "M", "O", "D", "C", "A", "C", "H", "E", "=", "/", "t", "m", "p", "/", "m", "o", "d", " ", "g", "o", " ", "t", "e", "s", "t", " ", ".", "/", ".", ".", ".">>
    /\ fn.cmd.Env = <<<<<<"G", "O", "M", "O", "D", "C", "A", "C", "H", "E">>, <<"/", "t", "m", "p", "/", "m", "o", "d">>>>>>
    /\ \A i \in 1..Len(fn.cmd.Args) : InsideRoot(fn.cmd.Args[i])
    /\ cfg.Workspace.Allow = <<>>
    /\ ~fn.decision.Allowed
    /\ fn.decision.Reason = Msg(OutsideReason, <<>>)

(***************************************************************************)
(* The boundary test on its own, with empty allow and block lists          *)
(***************************************************************************)

\* the longest path enumerated
MaxPathLen == 5

PathAlphabet == {"/", ".", "h", "p"}

\* paths of the claim that end outside the root /h/p
OutsideExamples == {
    <<"/">>,
    <<"/", "t", "m", "p">>,
    <<"/", "e", "t", "c", "/", "p", "a", "s", "s", "w", "d">>,
    <<".", ".">>,
    <<".", ".", "/", "f", "o", "o">>,
    <<"f", "o", "o", "/", ".", ".", "/", ".", ".">>,
    <<"/", "h", "/", "p", "q">>,
    <<"/", "h", "/", "p", "/", ".", ".", "/", "p", "q">>,
    <<"/", "h">> }

\* paths of the claim that end at or under the root /h/p
InsideExamples == {
    <<".">>,
    <<".", "/", "f", "o", "o">>,
    <<"f", "o", "o", "/", "b", "a", "r">>,
    <<".", "/", ".", ".", ".">>,
    <<"/", "h", "/", "p">>,
    <<"/", "h", "/", "p", "/">>,
    <<"/", "h", "/", "p", "/", "x">>,
    <<".", ".", "/", "p">>,
    <<"f", "o", "o", "/", ".", ".">>,
    <<"/", "h", "/", "p", "/", ".", ".", "/", "p", "/", "x">> }

BoundaryPaths ==
    UNION {[1..n -> PathAlphabet] : n \in 0..MaxPathLen} \cup OutsideExamples
        \cup InsideExamples

InitBoundary ==
    /\ \E p \in BoundaryPaths : fn = [stage |-> "path", p |-> p, violates |-> FALSE]
    /\ cfg = WorkspaceOnly([on |-> TRUE, Allow |-> <<>>, Block |-> <<>>])
    /\ env = QuietEnv(FALSE)
    /\ cwdErr = FALSE
    /\ input = NoRequest
    /\ result = NoResult
    /\ ran = <<>>
    /\ executed = <<>>

\* ConfineToWorkspace.violatesBoundary on the path
ApplyViolatesBoundary ==
    /\ fn.stage = "path"
    /\ fn' = [fn EXCEPT !.stage = "decided",
                        !.violates = violatesBoundary(cfg.Workspace, fn.p)]
    /\ UNCHANGED <<cwdErr, cfg, env, input, result, ran, executed>>

NextBoundary == ApplyViolatesBoundary

SpecBoundary == InitBoundary /\ [][NextBoundary]_vars

\* The directory reached by walking the components from directory at (a
\* sequence of names below /): empty and `.` components stay, `..` goes to
\* the parent, and the parent of / is /.
RECURSIVE Walk(_, _)
Walk(comps, at) ==
    IF comps = <<>> THEN at
    ELSE IF Head(comps) = <<>> \/ Head(comps) = <<".">> THEN Walk(Tail(comps), at)
    ELSE IF Head(comps) = <<".", ".">>
    THEN Walk(Tail(comps), IF at = <<>> THEN at ELSE SubSeq(at, 1, Len(at) - 1))
    ELSE Walk(Tail(comps), Append(at, Head(comps)))

\* the names of the project root below /
RootNames == <<<<"h">>, <<"p">>>>

\* where the path leads: from / when it is absolute, else from the root
Destination(p) ==
    Walk(SplitOn(p, "/"), IF p # <<>> /\ p[1] = "/" THEN <<>> ELSE RootNames)

\* C8: with empty allow and block lists a non-empty path violates the
\* boundary exactly when its cleaned absolute form is neither the project
\* root nor below it; absolute paths outside the root, traversals that end
\* above it and a sibling that only shares the root's name as a prefix
\* violate, paths that stay at or under the root do not, and the empty path
\* never violates.
BoundaryExact ==
    fn.stage = "decided" =>
        /\ fn.violates <=>
              /\ fn.p # <<>>
              /\ ~(/\ Len(Destination(fn.p)) >= Len(RootNames)
                   /\ SubSeq(Destination(fn.p), 1, Len(RootNames)) = RootNames)
        /\ fn.violates <=> (fn.p # <<>> /\ ~InsideRoot(fn.p))
        /\ fn.p \in OutsideExamples => fn.violates
        /\ fn.p \in InsideExamples => ~fn.violates
        /\ fn.p = <<>> => ~fn.violates

\* The sibling directory /h/pq, whose name starts with the root's, violates.
BoundaryExactWitness ==
    /\ fn.stage = "decided"
    /\ fn.p = <<"/", "h", "/", "p", "q">>
    /\ fn.violates

(***************************************************************************)
(* The protected-path oracle on its own                                    *)
(***************************************************************************)

\* the paths the oracle is asked about
OraclePaths == {
    <<"/", "h", "/", ".", "c", "l", "a", "u", "d", "e">>,
    <<"/", "h", "/", ".", "c", "l", "a", "u", "d", "e", "/">>,
    <<"/", "h", "/", ".", "c", "l", "a", "u", "d", "e", "/", "x">>,
    <<"/", "h", "/", ".", "c", "l", "a", "u", "d", "e", "x">>,
    <<".", ".", "/", ".", "c", "l", "a", "u", "d", "e">>,
    <<"~", "/", ".", "c", "l", "a", "u", "d", "e">>,
    <<"/", "h", "/", ".", "s", "s", "h">>,
    <<"/", "h", "/", ".", "s", "s", "h", "/">>,
    <<"/", "h", "/", ".", "s", "s", "h", "/", "x">>,
    <<"/", "h", "/", ".", "s", "s", "h", "x">>,
    <<".", ".", "/", ".", "s", "s", "h">>,
    <<"~", "/", ".", "s", "s", "h">>,
    <<"/", "h", "/", ".", "a", "w", "s">>,
    <<"/", "h", "/", ".", "a", "w", "s", "/">>,
    <<"/", "h", "/", ".", "a", "w", "s", "/", "x">>,
    <<"/", "h", "/", ".", "a", "w", "s", "x">>,
    <<".", ".", "/", ".", "a", "w", "s">>,
    <<"~", "/", ".", "a", "w", "s">>,
    <<"/", "h", "/", ".", "g", "n", "u", "p", "g">>,
    <<"/", "h", "/", ".", "g", "n", "u", "p", "g", "/">>,
    <<"/", "h", "/", ".", "g", "n", "u", "p", "g", "/", "x">>,
    <<"/", "h", "/", ".", "g", "n", "u", "p", "g", "x">>,
    <<".", ".", "/", ".", "g", "n", "u", "p", "g">>,
    <<"~", "/", ".", "g", "n", "u", "p", "g">>,
    <<"/", "h", "/", ".", "g", "p", "g">>,
    <<"/", "h", "/", ".", "g", "p", "g", "/">>,
    <<"/", "h", "/", ".", "g", "p", "g", "/", "x">>,
    <<"/", "h", "/", ".", "g", "p", "g", "x">>,
    <<".", ".", "/", ".", "g", "p", "g">>,
    <<"~", "/", ".", "g", "p", "g">>,
    <<"/", "h", "/", ".", "c", "o", "n", "f", "i", "g", "/", "g", "h">>,
    <<"/", "h", "/", ".", "c", "o", "n", "f", "i", "g", "/", "g", "h", "/">>,
    <<"/", "h", "/", ".", "c", "o", "n", "f", "i", "g", "/", "g", "h", "/", "x">>,
    <<"/", "h", "/", ".", "c", "o", "n", "f", "i", "g", "/", "g", "h", "x">>,
    <<".", ".", "/", ".", "c", "o", "n", "f", "i", "g", "/", "g", "h">>,
    <<"~", "/", ".", "c", "o", "n", "f", "i", "g", "/", "g", "h">>,
    <<"/", "h", "/", ".", "c", "o", "n", "f", "i", "g", "/", "w", "a", "t", "c", "h", "m", "a", "n">>,
    <<"/", "h", "/", ".", "c", "o", "n", "f", "i", "g", "/", "w", "a", "t", "c", "h", "m", "a", "n", "/">>,
    <<"/", "h", "/", ".", "c", "o", "n", "f", "i", "g", "/", "w", "a", "t", "c", "h", "m", "a", "n", "/", "x">>,
    <<"/", "h", "/", ".", "c", "o", "n", "f", "i", "g", "/", "w", "a", "t", "c", "h", "m", "a", "n", "x">>,
    <<".", ".", "/", ".", "c", "o", "n", "f", "i", "g", "/", "w", "a", "t", "c", "h", "m", "a", "n">>,
    <<"~", "/", ".", "c", "o", "n", "f", "i", "g", "/", "w", "a", "t", "c", "h", "m", "a", "n">>,
    <<"/", "h", "/", ".", "n", "e", "t", "r", "c">>,
    <<"/", "h", "/", ".", "n", "e", "t", "r", "c", "/">>,
    <<"/", "h", "/", ".", "n", "e", "t", "r", "c", "/", "x">>,
    <<"/", "h", "/", ".", "n", "e", "t", "r", "c", "x">>,
    <<".", ".", "/", ".", "n", "e", "t", "r", "c">>,
    <<"~", "/", ".", "n", "e", "t", "r", "c">>,
    <<"/", "h", "/", ".", "g", "i", "t", "-", "c", "r", "e", "d", "e", "n", "t", "i", "a", "l", "s">>,
    <<"/", "h", "/", ".", "g", "i", "t", "-", "c", "r", "e", "d", "e", "n", "t", "i", "a", "l", "s", "/">>,
    <<"/", "h", "/", ".", "g", "i", "t", "-", "c", "r", "e", "d", "e", "n", "t", "i", "a", "l", "s", "/", "x">>,
    <<"/", "h", "/", ".", "g", "i", "t", "-", "c", "r", "e", "d", "e", "n", "t", "i", "a", "l", "s", "x">>,
    <<".", ".", "/", ".", "g", "i", "t", "-", "c", "r", "e", "d", "e", "n", "t", "i", "a", "l", "s">>,
    <<"~", "/", ".", "g", "i", "t", "-", "c", "r", "e", "d", "e", "n", "t", "i", "a", "l", "s">>,
    <<"/", "h", "/", "g", "o", "/", "b", "i", "n", "/", "w", "a", "t", "c", "h", "m", "a", "n">>,
    <<"/", "h", "/", "g", "o", "/", "b", "i", "n", "/", "w", "a", "t", "c", "h", "m", "a", "n", "/">>,
    <<"/", "h", "/", "g", "o", "/", "b", "i", "n", "/", "w", "a", "t", "c", "h", "m", "a", "n", "/", "x">>,
    <<"/", "h", "/", "g", "o", "/", "b", "i", "n", "/", "w", "a", "t", "c", "h", "m", "a", "n", "x">>,
    <<".", ".", "/", "g", "o", "/", "b", "i", "n", "/", "w", "a", "t", "c", "h", "m", "a", "n">>,
    <<"~", "/", "g", "o", "/", "b", "i", "n", "/", "w", "a", "t", "c", "h", "m", "a", "n">>,
    <<>>,
    <<".", "w", "a", "t", "c", "h", "m", "a", "n", ".", "y", "m", "l">>,
    <<"s", "u", "b", "/", ".", "w", "a", "t", "c", "h", "m", "a", "n", ".", "y", "m", "l">>,
    <<"/", "e", "t", "c", "/", ".", "w", "a", "t", "c", "h", "m", "a", "n", ".", "y", "m", "l">>,
    <<".", "w", "a", "t", "c", "h", "m", "a", "n", ".", "y", "m", "l", ".", "b", "a", "k">>,
    <<".", "w", "a", "t", "c", "h", "m", "a", "n", ".", "y", "m", "l", "/", "x">>,
    <<"x", ".", "w", "a", "t", "c", "h", "m", "a", "n", ".", "y", "m", "l">>,
    <<"/", "h", "/", ".", "s", "s", "h", "/", "i", "d", "_", "r", "s", "a">>,
    <<"/", "h", "/", ".", "s", "s", "h", "k", "e", "y", "s">>,
    <<"/", "h", "/", ".", "s", "s", "h", "/", ".", ".", "/", ".", "s", "s", "h", "k", "e", "y", "s">>,
    <<"/", "h", "/", "p", "/", ".", ".", "/", ".", "s", "s", "h", "/", "i", "d", "_", "r", "s", "a">>,
    <<"/", "h", "/", ".", "c", "o", "n", "f", "i", "g">>,
    <<"/", "h", "/", ".", "c", "o", "n", "f", "i", "g", "/", "g", "h", "x", "/", "y">>,
    <<"/", "h", "/", "g", "o", "/", "b", "i", "n">>,
    <<"/", ".", "s", "s", "h", "/", "i", "d", "_", "r", "s", "a">>,
    <<"/", "h", "/", "p", "/", ".", "s", "s", "h", "/", "i", "d", "_", "r", "s", "a">>,
    <<"m", "a", "i", "n", ".", "g", "o">>,
    <<"/">>,
    <<".">>,
    <<"/", "h">>,
    <<"/", "h", "/", ".", "s", "s", "h", "k", "e", "y", "s", "/", ".", "s", "s", "h", "/">>,
    <<"/", "h", "/", "/", ".", "s", "s", "h", "/", "/", "i", "d", "_", "r", "s", "a">>,
    <<"/", "h", "/", ".", "/", ".", "a", "w", "s", "/", "c", "r", "e", "d", "e", "n", "t", "i", "a", "l", "s">> }

InitOracle ==
    /\ \E p \in OraclePaths : fn = [stage |-> "path", p |-> p, protected |-> FALSE]
    /\ cfg = WorkspaceOnly([on |-> FALSE, Allow |-> <<>>, Block |-> <<>>])
    /\ env = QuietEnv(FALSE)
    /\ cwdErr = FALSE
    /\ input = NoRequest
    /\ result = NoResult
    /\ ran = <<>>
    /\ executed = <<>>

\* IsAlwaysProtected on the path
ApplyIsAlwaysProtected ==
    /\ fn.stage = "path"
    /\ fn' = [fn EXCEPT !.stage = "decided", !.protected = IsAlwaysProtected(fn.p)]
    /\ UNCHANGED <<cwdErr, cfg, env, input, result, ran, executed>>

NextOracle == ApplyIsAlwaysProtected

SpecOracle == InitOracle /\ [][NextOracle]_vars

\* the protected entries below the home directory: files, and directories
ProtectedFiles == {<<"/", "h", "/", ".", "n", "e", "t", "r", "c">>, <<"/", "h", "/", ".", "g", "i", "t", "-", "c", "r", "e", "d", "e", "n", "t", "i", "a", "l", "s">>, <<"/", "h", "/", "g", "o", "/", "b", "i", "n", "/", "w", "a", "t", "c", "h", "m", "a", "n">>}

ProtectedDirectories == {<<"/", "h", "/", ".", "c", "l", "a", "u", "d", "e">>,
    <<"/", "h", "/", ".", "s", "s", "h">>,
    <<"/", "h", "/", ".", "a", "w", "s">>,
    <<"/", "h", "/", ".", "g", "n", "u", "p", "g">>,
    <<"/", "h", "/", ".", "g", "p", "g">>,
    <<"/", "h", "/", ".", "c", "o", "n", "f", "i", "g", "/", "g", "h">>,
    <<"/", "h", "/", ".", "c", "o", "n", "f", "i", "g", "/", "w", "a", "t", "c", "h", "m", "a", "n">>}

\* The oracle is true exactly when the base name of the cleaned absolute form
\* is .watchman.yml, or the form is a protected file, or it is a protected
\* directory or lies under one; the empty path is never protected. Holds in
\* every state of SpecOracle.
OracleExact ==
    fn.stage = "decided" =>
        (fn.protected <=>
            /\ fn.p # <<>>
            /\ \/ Base(AbsoluteForm(fn.p)) = <<".", "w", "a", "t", "c", "h", "m", "a", "n", ".", "y", "m", "l">>
               \/ AbsoluteForm(fn.p) \in ProtectedFiles
               \/ \E d \in ProtectedDirectories :
                     \/ AbsoluteForm(fn.p) = d
                     \/ HasPrefix(AbsoluteForm(fn.p), d \o <<"/">>))

\* the private key below the home directory
PrivateKey == <<"/", "h", "/", ".", "s", "s", "h", "/", "i", "d", "_", "r", "s", "a">>

\* C10: the protected path ~/.ssh/id_rsa is denied in all tools: a request of
\* any tool of the path-extractor table that touches it is denied.
PrivateKeyDeniedInAllTools ==
    (/\ Decided
     /\ input.ToolName \in PathTools
     /\ PrivateKey \in Range(ExtractPaths(input.ToolName, input)))
        => ~result.Allowed

(***************************************************************************)
(* commands.block on its own: isCommandBlocked on one command and one      *)
(* pattern                                                                 *)
(***************************************************************************)

BlockCommands == {
    <<>>,
    <<"d", "d", " ", "i", "f", "=", "/", "d", "e", "v", "/", "z", "e", "r", "o", " ", "o", "f", "=", "f", "i", "l", "e">>,
    <<"l", "s", " ", "|", " ", "d", "d", " ", "o", "f", "=", "f", "i", "l", "e">>,
    <<"s", "u", "d", "o", " ", "a", "p", "t", " ", "i", "n", "s", "t", "a", "l", "l">>,
    <<"V", "A", "R", "=", "v", "a", "l", "u", "e", " ", "d", "d", " ", "i", "f", "=", "/", "d", "e", "v", "/", "z", "e", "r", "o">>,
    <<"e", "c", "h", "o", " ", "'", "d", "d", " ", "i", "s", " ", "a", " ", "c", "o", "m", "m", "a", "n", "d", "'">>,
    <<"l", "s", " ", "&", "&", " ", "d", "d", " ", "o", "f", "=", "o", "u", "t">>,
    <<"l", "s", ";", " ", "d", "d", " ", "o", "f", "=", "o", "u", "t">>,
    <<"l", "s", " ", "|", "|", " ", "d", "d", " ", "o", "f", "=", "o", "u", "t">>,
    <<"c", "d", " ", "p", "k", "g", "/", "o", "d", "d", "/", "f", "i", "l", "e">>,
    <<"e", "c", "h", "o", " ", "a", "d", "d">>,
    <<"c", "a", "t", " ", "/", "p", "a", "t", "h", "/", "t", "o", "/", "o", "d", "d", "/", "f", "i", "l", "e">>,
    <<"c", "d", " ", "p", "k", "g", "/", "p", "l", "p", "/", "m", "i", "d", "d", "l", "e", "w", "a", "r", "e", " ", "&", "&", " ", "g", "o", " ", "t", "e", "s", "t">>,
    <<"e", "c", "h", "o", " ", "'", "a", " ", ";", " ", "d", "d", " ", "o", "f", "=", "x", "'">>,
    <<"e", "c", "h", "o", " ", "\"", "a", " ", "|", " ", "d", "d", "\"", " ", ";", " ", "s", "u", "d", "o", " ", "l", "s">>,
    <<"l", "s", " ", "&", " ", "d", "d">>,
    <<"s", "l", "e", "e", "p", " ", "1", " ", "&", " ", "s", "u", "d", "o", " ", "l", "s">>,
    <<" ", " ", "d", "d">>,
    <<"'", "d", "d", "'", " ", "o", "f", "=", "x">>,
    <<"r", "m", " ", "-", "r", "f", " ", "/", " ", ";", " ", "l", "s">>,
    <<"e", "c", "h", "o", " ", "r", "m", " ", "-", "r", "f", " ", "/", "t", "m", "p">>,
    <<"A", "=", "1", " ", "B", "=", "2", " ", "s", "u", "d", "o", " ", "d", "d">>,
    <<"l", "s", " ", ";", ";", " ", "d", "d">>,
    <<"e", "c", "h", "o", " ", "'", "a", "\\", "'", " ", ";", " ", "d", "d", " ", "o", "f", "=", "x">>,
    <<"e", "c", "h", "o", " ", "'", "d", "d">>,
    <<"d", "d", " ", "o", "f">>,
    <<"l", "s", "|", "d", "d">> }

BlockPatterns == {
    <<"d", "d">>,
    <<"s", "u", "d", "o">>,
    <<"r", "m", " ", "-", "r", "f", " ", "/">>,
    <<"d", "d", " ", "o", "f">> }

InitCommands ==
    /\ \E cmd \in BlockCommands, pattern \in BlockPatterns :
          /\ fn = [stage |-> "command", cmd |-> cmd, pattern |-> pattern, blocked |-> <<>>]
          /\ cfg = [WorkspaceOnly([on |-> FALSE, Allow |-> <<>>, Block |-> <<>>])
                       EXCEPT !.Commands = [Block |-> <<pattern>>]]
    /\ env = QuietEnv(FALSE)
    /\ cwdErr = FALSE
    /\ input = NoRequest
    /\ result = NoResult
    /\ ran = <<>>
    /\ executed = <<>>

\* Evaluator.isCommandBlocked on the command
ApplyIsCommandBlocked ==
    /\ fn.stage = "command"
    /\ fn' = [fn EXCEPT !.stage = "decided", !.blocked = isCommandBlocked(cfg, fn.cmd)]
    /\ UNCHANGED <<cwdErr, cfg, env, input, result, ran, executed>>

NextCommands == ApplyIsCommandBlocked

SpecCommands == InitCommands /\ [][NextCommands]_vars

\* The quote each character of s leaves open ("" for none), read from the
\* left: outside quotes ' or " opens, inside only the same character closes.
RECURSIVE QuoteScan(_, _, _, _)
QuoteScan(s, i, q, acc) ==
    IF i > Len(s) THEN acc
    ELSE IF q = ""
    THEN IF s[i] \in {"'", "\""}
         THEN QuoteScan(s, i + 1, s[i], Append(acc, s[i]))
         ELSE QuoteScan(s, i + 1, "", Append(acc, ""))
    ELSE IF s[i] = q THEN QuoteScan(s, i + 1, "", Append(acc, ""))
    ELSE QuoteScan(s, i + 1, q, Append(acc, q))

QuoteStates(s) == QuoteScan(s, 1, "", <<>>)

\* position i of s, with quote states qs: an ordinary character outside quotes
OutsideQuotes(qs, i) == qs[i] = "" /\ (i = 1 \/ qs[i - 1] = "")

\* position i opens or closes a quote
QuoteMark(qs, i) == qs[i] # (IF i = 1 THEN "" ELSE qs[i - 1])

\* position i belongs to a separator |, ||, && or ; outside quotes
SegmentBreak(s, qs, i) ==
    /\ OutsideQuotes(qs, i)
    /\ \/ s[i] \in {"|", ";"}
       \/ /\ s[i] = "&"
          /\ \/ i < Len(s) /\ s[i + 1] = "&" /\ OutsideQuotes(qs, i + 1)
             \/ i > 1 /\ s[i - 1] = "&" /\ OutsideQuotes(qs, i - 1)

\* position i separates tokens: white space outside quotes
TokenBreak(s, qs, i) == OutsideQuotes(qs, i) /\ s[i] \in {" ", "\t"}

\* the characters a..b of s without the quote marks
Unquoted(s, qs, a, b) ==
    LET kept == SelectSeq([k \in 1..(b - a + 1) |-> a + k - 1],
                          LAMBDA p : ~QuoteMark(qs, p))
    IN  [k \in 1..Len(kept) |-> s[kept[k]]]

\* a..b is a token of s: a longest stretch with no token or segment break
\* that holds a character
TokenAt(s, qs, a, b) ==
    /\ a <= b
    /\ \A k \in a..b : ~TokenBreak(s, qs, k) /\ ~SegmentBreak(s, qs, k)
    /\ a = 1 \/ TokenBreak(s, qs, a - 1) \/ SegmentBreak(s, qs, a - 1)
    /\ b = Len(s) \/ TokenBreak(s, qs, b + 1) \/ SegmentBreak(s, qs, b + 1)
    /\ Unquoted(s, qs, a, b) # <<>>

\* an environment assignment: a token holding "=" that is no flag
AssignmentToken(tok) == Contains(tok, <<"=">>) /\ ~HasPrefix(tok, <<"-">>)

\* the token a..b is, in its segment, the first that is no assignment
FirstCommandToken(s, qs, a, b) ==
    /\ TokenAt(s, qs, a, b)
    /\ ~AssignmentToken(Unquoted(s, qs, a, b))
    /\ \A c \in 1..(a - 1), d \in 1..(a - 1) :
          (/\ TokenAt(s, qs, c, d)
           /\ \A k \in d..a : ~SegmentBreak(s, qs, k))
             => AssignmentToken(Unquoted(s, qs, c, d))

\* pattern is the command of some segment of s
InCommandPosition(s, pattern) ==
    \E a \in 1..Len(s), b \in 1..Len(s) :
        /\ FirstCommandToken(s, QuoteStates(s), a, b)
        /\ Unquoted(s, QuoteStates(s), a, b) = pattern

\* C11: a pattern without white space is reported exactly when it equals the
\* first token that is no environment assignment of some segment of the
\* command, the segments being split on |, ||, && and ; outside quotes; a
\* pattern with a space is reported exactly when it is a substring of the
\* whole command.
CommandPositionExact ==
    fn.stage = "decided"
        => ((fn.blocked # <<>>) <=>
               IF Contains(fn.pattern, <<" ">>) THEN Contains(fn.cmd, fn.pattern)
               ELSE InCommandPosition(fn.cmd, fn.pattern))

(***************************************************************************)
(* The tool lists on their own: Evaluate with the rules switched off       *)
(***************************************************************************)

ToolAllowLists == {
    <<>>,
    <<<<"r", "e", "a", "d">>>>,
    <<<<"B", "A", "S", "H">>, <<"W", "r", "i", "t", "e">>, <<"t", "a", "s", "k">>>>,
    <<<<"B", "a", "s", "h">>, <<"R", "e", "a", "d">>, <<"W", "r", "i", "t", "e">>, <<"E", "d", "i", "t">>, <<"G", "l", "o", "b">>, <<"G", "r", "e", "p">>, <<"N", "o", "t", "e", "b", "o", "o", "k", "E", "d", "i", "t">>>> }

ToolBlockLists == {
    <<>>,
    <<<<"b", "a", "s", "h">>>>,
    <<<<"W", "e", "b", "S", "e", "a", "r", "c", "h">>, <<"R", "E", "A", "D">>, <<"w", "r", "i", "t", "e">>>> }

InitTools ==
    /\ \E a \in ToolAllowLists, b \in ToolBlockLists :
          cfg = [WorkspaceOnly([on |-> FALSE, Allow |-> <<>>, Block |-> <<>>])
                    EXCEPT !.Tools = [Allow |-> a, Block |-> b]]
    /\ env = QuietEnv(FALSE)
    /\ cwdErr = FALSE
    /\ input = NoRequest
    /\ result = NoResult
    /\ ran = <<>>
    /\ executed = <<>>
    /\ fn = <<>>

SpecTools == InitTools /\ [][Next]_vars

\* two names that differ at most in the case of their letters
SameIgnoringCase(a, b) ==
    /\ Len(a) = Len(b)
    /\ \A k \in 1..Len(a) :
          \/ a[k] = b[k]
          \/ \E n \in 1..26 : {a[k], b[k]} = {UpperSeq[n], LowerLetters[n]}

ListedIn(list, name) == \E k \in 1..Len(list) : SameIgnoringCase(list[k], name)

BlockedToolReason(name) == Msg("tool is blocked by configuration: ", name)

UnlistedToolReason(name) == Msg("tool is not in allowed list: ", name)

\* C12: a request whose tool is in tools.block, whatever the case of its
\* letters, is denied with the blocklist's reason, also when tools.allow
\* lists the tool; any other request is denied with the allowlist's reason
\* exactly when tools.allow is not empty and does not list the tool,
\* whatever the case of its letters.
ToolFiltering ==
    Decided =>
        IF ListedIn(cfg.Tools.Block, input.ToolName)
        THEN ~result.Allowed /\ result.Reason = BlockedToolReason(input.ToolName)
        ELSE /\ result.Reason # BlockedToolReason(input.ToolName)
             /\ (~result.Allowed /\ result.Reason = UnlistedToolReason(input.ToolName))
                   <=> (cfg.Tools.Allow # <<>>
                        /\ ~ListedIn(cfg.Tools.Allow, input.ToolName))

\* a tool that both lists name, in other letter case, has been denied by
\* the blocklist
ToolFilteringWitness ==
    /\ Decided
    /\ input.ToolName \notin Range(cfg.Tools.Block)
    /\ input.ToolName \notin Range(cfg.Tools.Allow)
    /\ ListedIn(cfg.Tools.Block, input.ToolName)
    /\ ListedIn(cfg.Tools.Allow, input.ToolName)
    /\ result.Reason = BlockedToolReason(input.ToolName)

(***************************************************************************)
(* The scope rule on its own: ScopeToFiles.Evaluate on a tool and the      *)
(* paths of a command                                                      *)
(***************************************************************************)

ScopeAllowLists == {
    <<>>,
    <<<<"s", "r", "c", "/", "*", "*", "/", "*", ".", "g", "o">>>>,
    <<<<"s", "r", "c", "/", "*", "*">>, <<"*", ".", "m", "d">>>> }

ScopeBlockLists == {
    <<>>,
    <<<<"v", "e", "n", "d", "o", "r", "/", "*", "*">>>>,
    <<<<"s", "r", "c", "/", "g", "e", "n", "/", "*", "*">>, <<"*", ".", "m", "d">>>> }

\* the paths a command gives the rule
ScopeArgs == {
    <<>>,
    <<<<"s", "r", "c", "/", "m", "a", "i", "n", ".", "g", "o">>>>,
    <<<<"s", "r", "c", "/", "a", "/", "b", ".", "g", "o">>>>,
    <<<<"v", "e", "n", "d", "o", "r", "/", "l", "i", "b", ".", "g", "o">>>>,
    <<<<"s", "r", "c", "/", "g", "e", "n", "/", "x", ".", "g", "o">>>>,
    <<<<"R", "E", "A", "D", "M", "E", ".", "m", "d">>>>,
    <<<<"d", "o", "c", "s", "/", "R", "E", "A", "D", "M", "E", ".", "m", "d">>>>,
    <<<<"/", "e", "t", "c", "/", "p", "a", "s", "s", "w", "d">>>>,
    <<<<"s", "r", "c", "/", "m", "a", "i", "n", ".", "g", "o">>, <<"v", "e", "n", "d", "o", "r", "/", "l", "i", "b", ".", "g", "o">>>>,
    <<<<"d", "o", "c", "s", "/", "x", ".", "t", "x", "t">>, <<"s", "r", "c", "/", "g", "e", "n", "/", "x", ".", "g", "o">>>>,
    <<<<"s", "r", "c", "/", "m", "a", "i", "n", ".", "g", "o">>, <<"s", "r", "c", "/", "a", "/", "b", ".", "g", "o">>>>,
    <<<<"R", "E", "A", "D", "M", "E", ".", "m", "d">>, <<"/", "e", "t", "c", "/", "p", "a", "s", "s", "w", "d">>>> }

ScopeTools == {Write, Edit, NotebookEdit, Read, Bash}

InitScope ==
    /\ \E a \in ScopeAllowLists, b \in ScopeBlockLists, tool \in ScopeTools,
          paths \in ScopeArgs :
          /\ cfg = [WorkspaceOnly([on |-> FALSE, Allow |-> <<>>, Block |-> <<>>])
                       EXCEPT !.Scope = [Allow |-> a, Block |-> b]]
          /\ fn = [stage |-> "command", tool |-> tool,
                   cmd |-> [EmptyCommand(<<>>) EXCEPT !.Args = paths], decision |-> Allow]
    /\ env = QuietEnv(FALSE)
    /\ cwdErr = FALSE
    /\ input = NoRequest
    /\ result = NoResult
    /\ ran = <<>>
    /\ executed = <<>>

\* ScopeToFiles.Evaluate on the tool and the command
ScopeEvaluate ==
    /\ fn.stage = "command"
    /\ fn' = [fn EXCEPT !.stage = "decided",
                        !.decision = ScopeToFiles_Evaluate(cfg.Scope, fn.tool, fn.cmd)]
    /\ UNCHANGED <<cwdErr, cfg, env, input, result, ran, executed>>

NextScope == ScopeEvaluate

SpecScope == InitScope /\ [][NextScope]_vars

\* some glob of the list matches the path
GlobListed(list, p) == \E k \in 1..Len(list) : matchGlob(p, list[k])

\* what the rule is to say of one target path: "" when it accepts it
ScopeVerdict(p) ==
    IF GlobListed(cfg.Scope.Block, p) THEN "path is blocked by scope configuration: "
    ELSE IF cfg.Scope.Allow = <<>> THEN ""
    ELSE IF GlobListed(cfg.Scope.Allow, p) THEN ""
    ELSE "path is outside allowed scope: "

\* C13: for a tool other than Write, Edit and NotebookEdit the rule allows;
\* for these three it allows exactly when it accepts every target path, a
\* path being refused when a scope.block glob matches it, also if a
\* scope.allow glob matches it, and otherwise accepted when scope.allow is
\* empty or one of its globs matches; a denial names the first refused path.
ScopePrecedence ==
    fn.stage = "decided" =>
        IF fn.tool \notin {Write, Edit, NotebookEdit} THEN fn.decision = Allow
        ELSE LET paths == fn.cmd.Args
                 refused == {k \in 1..Len(paths) : ScopeVerdict(paths[k]) # ""}
             IN  IF refused = {} THEN fn.decision = Allow
                 ELSE \E k \in refused :
                         /\ \A j \in refused : k <= j
                         /\ fn.decision = Deny(ScopeVerdict(paths[k]), paths[k])

\* a path that a scope.allow glob and a scope.block glob both match has been
\* denied as blocked
ScopePrecedenceWitness ==
    /\ fn.stage = "decided"
    /\ fn.tool \in {Write, Edit, NotebookEdit}
    /\ \E k \in 1..Len(fn.cmd.Args) :
          /\ GlobListed(cfg.Scope.Allow, fn.cmd.Args[k])
          /\ GlobListed(cfg.Scope.Block, fn.cmd.Args[k])
          /\ fn.decision = Deny("path is blocked by scope configuration: ", fn.cmd.Args[k])

(***************************************************************************)
(* The versioning rule on its own: VersioningRule.Evaluate on a command    *)
(***************************************************************************)

VersioningCommands == {
    <<"l", "s">>,
    <<"e", "c", "h", "o", " ", "p", "u", "s", "h", " ", "-", "-", "f", "o", "r", "c", "e">>,
    <<"e", "c", "h", "o", " ", "m", "e", "r", "g", "e">>,
    <<"g", "i", "t", " ", "s", "t", "a", "t", "u", "s">>,
    <<"g", "i", "t", " ", "p", "u", "s", "h", " ", "-", "-", "f", "o", "r", "c", "e">>,
    <<"g", "i", "t", " ", "m", "e", "r", "g", "e", " ", "x">>,
    <<"j", "j", " ", "m", "e", "r", "g", "e", " ", "x">>,
    <<"g", "i", "t", " ", "r", "e", "b", "a", "s", "e", " ", "m", "a", "i", "n">>,
    <<"j", "j", " ", "r", "e", "b", "a", "s", "e", " ", "-", "d", " ", "m", "a", "i", "n">>,
    <<"g", "i", "t", " ", "m", "e", "r", "g", "e", " ", "x", " ", "&", "&", " ", "g", "i", "t", " ", "p", "u", "s", "h", " ", "-", "-", "f", "o", "r", "c", "e">>,
    <<"g", "i", "t", " ", "c", "o", "m", "m", "i", "t", " ", "-", "m", " ", "\"", "f", "i", "x", ".", "\"">>,
    <<"j", "j", " ", "c", "o", "m", "m", "i", "t", " ", "-", "m", " ", "\"", "f", "i", "x", ".", "\"">>,
    <<"g", "i", "t", " ", "c", "o", "m", "m", "i", "t">>,
    <<"j", "j", " ", "c", "o", "m", "m", "i", "t", " ", "-", "m", " ", "\"", "g", "i", "t", " ", "c", "o", "m", "m", "i", "t", "\"">>,
    <<"g", "i", "t", " ", "c", "h", "e", "c", "k", "o", "u", "t", " ", "-", "b", " ", "m", "a", "i", "n", " ", "&", "&", " ", "g", "i", "t", " ", "c", "o", "m", "m", "i", "t", " ", "-", "m", " ", "\"", "x", "\"">>,
    <<"g", "i", "t", " ", "c", "h", "e", "c", "k", "o", "u", "t", " ", "-", "b", " ", "d", "e", "v", " ", "&", "&", " ", "g", "i", "t", " ", "c", "o", "m", "m", "i", "t", " ", "-", "m", " ", "\"", "x", ".", "\"">>,
    <<"g", "i", "t", " ", "c", "h", "e", "c", "k", "o", "u", "t", " ", "-", "b", " ", "m", "a", "i", "n">>,
    <<"g", "i", "t", " ", "m", "e", "r", "g", "e", " ", "x", " ", "&", "&", " ", "g", "i", "t", " ", "c", "o", "m", "m", "i", "t", " ", "-", "m", " ", "\"", "x", "\"">>,
    <<"g", "i", "t", " ", "c", "o", "m", "m", "i", "t", " ", "-", "m", " ", "\"", "x", "\"", " ", "&", "&", " ", "g", "i", "t", " ", "p", "u", "s", "h", " ", "-", "-", "f", "o", "r", "c", "e">>,
    <<"g", "i", "t", " ", "r", "e", "b", "a", "s", "e", " ", "m", "a", "i", "n", " ", "&", "&", " ", "g", "i", "t", " ", "c", "h", "e", "c", "k", "o", "u", "t", " ", "-", "b", " ", "m", "a", "i", "n", " ", "&", "&", " ", "g", "i", "t", " ", "c", "o", "m", "m", "i", "t", " ", "-", "m", " ", "\"", "x", ".", "\"">> }

OperationLists == {
    <<>>,
    <<<<"p", "u", "s", "h", " ", "-", "-", "f", "o", "r", "c", "e">>, <<"r", "e", "s", "e", "t", " ", "-", "-", "h", "a", "r", "d">>>>,
    <<<<>>, <<"p", "u", "s", "h", " ", "-", "-", "f", "o", "r", "c", "e">>>> }

ProtectedLists == {
    <<>>,
    <<<<"m", "a", "i", "n">>, <<"m", "a", "s", "t", "e", "r">>>>,
    <<<<>>>> }

VersioningRules ==
    {[Commit |-> c, Branches |-> [Protected |-> p], Operations |-> [Block |-> b],
      Workflow |-> w, Tool |-> tool] :
        c \in {NoCommit, [NoCommit EXCEPT !.NoPeriod = TRUE]}, p \in ProtectedLists,
        b \in OperationLists, w \in {"", "linear", "merge"}, tool \in {"", "jj"}}

InitVersioning ==
    /\ \E r \in VersioningRules, cmd \in VersioningCommands :
          /\ cfg = [WorkspaceOnly([on |-> FALSE, Allow |-> <<>>, Block |-> <<>>])
                       EXCEPT !.Versioning = r]
          /\ fn = [stage |-> "command", cmd |-> cmd, decision |-> Allow]
    /\ env = QuietEnv(FALSE)
    /\ cwdErr = FALSE
    /\ input = NoRequest
    /\ result = NoResult
    /\ ran = <<>>
    /\ executed = <<>>

\* VersioningRule.Evaluate on the command
VersioningEvaluate ==
    /\ fn.stage = "command"
    /\ fn' = [fn EXCEPT !.stage = "decided",
                        !.decision = VersioningRule_Evaluate(cfg.Versioning, fn.cmd)]
    /\ UNCHANGED <<cwdErr, cfg, env, input, result, ran, executed>>

NextVersioning == VersioningEvaluate

SpecVersioning == InitVersioning /\ [][NextVersioning]_vars

\* the first field of what follows the first flag in cmd, empty if there is none
TokenAfter(cmd, flag) ==
    IF ~Contains(cmd, flag) THEN <<>>
    ELSE LET After(fields) == IF fields = <<>> THEN <<>> ELSE fields[1]
         IN  After(Fields(SubSeq(cmd, Index(cmd, flag) + Len(flag) + 1, Len(cmd))))

\* the denial of reason text, whatever it names
DeniedAs(d, text) == ~d.Allowed /\ d.Reason.text = text

\* the reasons of the checks that come before the commit-message constraints
EarlierReasons == {
    "operation blocked by configuration: ",
    "workflow is linear: use rebase instead of merge",
    "workflow is merge-based: use merge instead of rebase",
    "prefer jj over git: use 'jj commit' instead of 'git commit'",
    "cannot commit directly to protected branch: " }

\* C14: the versioning rule decides a command by the first of these that
\* applies: neither "git " nor "jj " in it, allow; an operations.block entry
\* is a substring of it, deny; the workflow forbids it, deny; neither
\* "git commit" nor "jj commit" in it, allow; "git commit" in it and tool is
\* "jj", deny; the token after " -b " is in branches.protected, deny; and only
\* a command past all six is left to the commit-message constraints.
VersioningOrder ==
    fn.stage = "decided" =>
        LET r == cfg.Versioning
            cmd == fn.cmd
            d == fn.decision
        IN  IF ~Contains(cmd, GitSp) /\ ~Contains(cmd, JjSp) THEN d = Allow
            ELSE IF \E k \in 1..Len(r.Operations.Block) : Contains(cmd, r.Operations.Block[k])
            THEN DeniedAs(d, "operation blocked by configuration: ")
            ELSE IF r.Workflow = "linear"
                    /\ (Contains(cmd, GitMerge) \/ Contains(cmd, JjMerge))
            THEN DeniedAs(d, "workflow is linear: use rebase instead of merge")
            ELSE IF r.Workflow = "merge"
                    /\ (Contains(cmd, GitRebase) \/ Contains(cmd, JjRebase))
            THEN DeniedAs(d, "workflow is merge-based: use merge instead of rebase")
            ELSE IF ~Contains(cmd, GitCommit) /\ ~Contains(cmd, JjCommit) THEN d = Allow
            ELSE IF r.Tool = "jj" /\ Contains(cmd, GitCommit)
            THEN DeniedAs(d, "prefer jj over git: use 'jj commit' instead of 'git commit'")
            ELSE IF /\ TokenAfter(cmd, <<" ", "-", "b", " ">>) # <<>>
                    /\ \E k \in 1..Len(r.Branches.Protected) :
                          r.Branches.Protected[k] = TokenAfter(cmd, <<" ", "-", "b", " ">>)
            THEN d = Deny("cannot commit directly to protected branch: ",
                          TokenAfter(cmd, <<" ", "-", "b", " ">>))
            ELSE d.Allowed \/ d.Reason.text \notin EarlierReasons

(***************************************************************************)
(* The commit checks on their own: VersioningRule.EvaluateCommit           *)
(***************************************************************************)

CommitCommands == {
    <<"l", "s">>,
    <<"g", "i", "t", " ", "c", "o", "m", "m", "i", "t">>,
    <<"g", "i", "t", " ", "c", "o", "m", "m", "i", "t", " ", "-", "-", "a", "m", "e", "n", "d">>,
    <<"g", "i", "t", " ", "c", "o", "m", "m", "i", "t", " ", "-", "a", "m", " ", "\"", "f", "i", "x", ".", "\"">>,
    <<"g", "i", "t", " ", "c", "o", "m", "m", "i", "t", " ", "-", "m", " ", "\"", "f", "i", "x", "\"">>,
    <<"g", "i", "t", " ", "c", "o", "m", "m", "i", "t", " ", "-", "m", " ", "\"", "F", "i", "x", ".", "\"">>,
    <<"g", "i", "t", " ", "c", "o", "m", "m", "i", "t", " ", "-", "m", " ", "\"", "A", "d", "d", " ", "t", "h", "i", "n", "g", "\"">>,
    <<"g", "i", "t", " ", "c", "o", "m", "m", "i", "t", " ", "-", "m", " ", "\"", "f", "i", "x", ":", " ", "t", "h", "i", "n", "g", "\"">>,
    <<"g", "i", "t", " ", "c", "o", "m", "m", "i", "t", " ", "-", "m", " ", "\"", "1", "s", "t", ".", "\"">>,
    <<"g", "i", "t", " ", "c", "o", "m", "m", "i", "t", " ", "-", "m", " ", "\"", "A", "d", "d", " ", "a", "\n", "b", "\"">>,
    <<"g", "i", "t", " ", "c", "o", "m", "m", "i", "t", " ", "-", "-", "m", "e", "s", "s", "a", "g", "e", "=", "\"", "J", "I", "R", "A", "-", "1", " ", "F", "i", "x", " ", "i", "t", "\"">>,
    <<"j", "j", " ", "c", "o", "m", "m", "i", "t", " ", "-", "m", " ", "'", "J", "I", "R", "A", "-", "2", " ", "a", "d", "d", ".", "'">>,
    <<"g", "i", "t", " ", "c", "o", "m", "m", "i", "t", " ", "-", "m", " ", "\"", "\"">>,
    <<"g", "i", "t", " ", "c", "o", "m", "m", "i", "t", " ", "-", "m", " ", "f", "i", "x">>,
    <<"g", "i", "t", " ", "c", "h", "e", "c", "k", "o", "u", "t", " ", "-", "b", " ", "m", "a", "i", "n", " ", "&", "&", " ", "g", "i", "t", " ", "c", "o", "m", "m", "i", "t", " ", "-", "m", " ", "\"", "A", "d", "d", " ", "x", "\"">>,
    <<"g", "i", "t", " ", "c", "o", "m", "m", "i", "t", " ", "-", "m", " ", "\"", "$", "(", "c", "a", "t", " ", "<", "<", "'", "E", "O", "F", "'", "\n", "A", "d", "d", " ", "x", ".", "\n", "E", "O", "F", "\n", ")", "\"">> }

\* commit.max_length of the configurations that set one
CommitMaxLength == 9

CommitConstraints == {
    NoCommit,
    [NoCommit EXCEPT !.MaxLength = CommitMaxLength],
    [NoCommit EXCEPT !.RequireUppercase = TRUE],
    [NoCommit EXCEPT !.NoPeriod = TRUE],
    [NoCommit EXCEPT !.RequirePeriod = TRUE],
    [NoCommit EXCEPT !.SingleLine = TRUE],
    [NoCommit EXCEPT !.ForbidColons = TRUE],
    [NoCommit EXCEPT !.PrefixPattern = <<"J", "I", "R", "A", "-">>],
    [NoCommit EXCEPT !.PrefixPattern = <<"[">>],
    [NoCommit EXCEPT !.MaxLength = CommitMaxLength, !.RequireUppercase = TRUE, !.NoPeriod = TRUE, !.SingleLine = TRUE, !.ForbidColons = TRUE, !.PrefixPattern = <<"A", "d", "d">>],
    [NoCommit EXCEPT !.NoPeriod = TRUE, !.RequirePeriod = TRUE] }

InitCommit ==
    /\ \E c \in CommitConstraints, tool \in {"", "jj"}, p \in {<<>>, <<<<"m", "a", "i", "n">>>>},
          cmd \in CommitCommands :
          /\ cfg = [WorkspaceOnly([on |-> FALSE, Allow |-> <<>>, Block |-> <<>>])
                       EXCEPT !.Versioning =
                           [Commit |-> c, Branches |-> [Protected |-> p],
                            Operations |-> [Block |-> <<>>], Workflow |-> "", Tool |-> tool]]
          /\ fn = [stage |-> "command", cmd |-> cmd, decision |-> Allow]
    /\ env = QuietEnv(FALSE)
    /\ cwdErr = FALSE
    /\ input = NoRequest
    /\ result = NoResult
    /\ ran = <<>>
    /\ executed = <<>>

\* VersioningRule.EvaluateCommit on the command
CommitEvaluate ==
    /\ fn.stage = "command"
    /\ fn' = [fn EXCEPT !.stage = "decided",
                        !.decision = EvaluateCommit(cfg.Versioning, fn.cmd)]
    /\ UNCHANGED <<cwdErr, cfg, env, input, result, ran, executed>>

NextCommit == CommitEvaluate

SpecCommit == InitCommit /\ [][NextCommit]_vars

\* the message begins with a match of the pattern, a pattern of literal
\* characters; nothing matches a pattern that is no regular expression
MatchesAtStart(pattern, message) ==
    /\ \A i \in 1..Len(pattern) : pattern[i] \notin {"[", "]"}
    /\ Len(message) >= Len(pattern)
    /\ \A i \in 1..Len(pattern) : message[i] = pattern[i]

\* one of the commit-message constraints of c refuses the message
RefusesMessage(c, message) ==
    \/ c.MaxLength > 0 /\ Len(message) > c.MaxLength
    \/ c.RequireUppercase /\ \E i \in 1..26 : LowerLetters[i] = message[1]
    \/ c.NoPeriod /\ message[Len(message)] = "."
    \/ c.RequirePeriod /\ message[Len(message)] # "."
    \/ c.SingleLine /\ \E i \in 1..Len(message) : message[i] = "\n"
    \/ c.ForbidColons /\ \E i \in 1..Len(message) : message[i] = ":"
    \/ c.PrefixPattern # <<>> /\ ~MatchesAtStart(c.PrefixPattern, message)

\* the command is a commit that neither the tool preference nor a protected
\* branch denies
ReachesConstraints(r, cmd) ==
    /\ Contains(cmd, GitCommit) \/ Contains(cmd, JjCommit)
    /\ ~(r.Tool = "jj" /\ Contains(cmd, GitCommit))
    /\ \A k \in 1..Len(r.Branches.Protected) :
          r.Branches.Protected[k] # TokenAfter(cmd, <<" ", "-", "b", " ">>)

\* C15: a commit command that reaches the commit-message constraints is
\* allowed when no message is extracted from it, whatever the constraints;
\* when a message is extracted it is denied exactly when the message is
\* longer than a positive max_length, or starts with a letter that is not
\* uppercase under require_uppercase, or ends with a period under no_period,
\* or does not under require_period, or holds a newline under single_line,
\* or a colon under forbid_colons, or does not match a non-empty
\* prefix_pattern at its start.
MessageConstraints ==
    (fn.stage = "decided" /\ ReachesConstraints(cfg.Versioning, fn.cmd)) =>
        LET Judged(message) ==
                IF message = <<>> THEN fn.decision = Allow
                ELSE ~fn.decision.Allowed <=> RefusesMessage(cfg.Versioning.Commit, message)
        IN  Judged(extractCommitMessage(fn.cmd))

(***************************************************************************)
(* The incremental rule on its own: IncrementalRule.Evaluate               *)
(***************************************************************************)

\* the largest max_files and count of the rule's runs
IncMaxFiles == 8

\* warn_ratio in hundredths: unset, negative, in range, 1 and above
IncWarnRatios == {-50, 0, 25, 50, 70, 75, 100, 150}

InitIncremental ==
    /\ \E m \in -1..IncMaxFiles, w \in IncWarnRatios, count \in -1..(IncMaxFiles + 1) :
          /\ cfg = [WorkspaceOnly([on |-> FALSE, Allow |-> <<>>, Block |-> <<>>])
                       EXCEPT !.Incremental = [MaxFiles |-> m, WarnRatio |-> w]]
          /\ env = [QuietEnv(FALSE) EXCEPT !.count = count]
    /\ fn = [stage |-> "rule", asked |-> FALSE, decision |-> Allow]
    /\ cwdErr = FALSE
    /\ input = NoRequest
    /\ result = NoResult
    /\ ran = <<>>
    /\ executed = <<>>

\* IncrementalRule.Evaluate; asked records the call of countModifiedFiles
IncrementalEvaluate ==
    /\ fn.stage = "rule"
    /\ fn' = [stage |-> "decided", asked |-> cfg.Incremental.MaxFiles > 0,
              decision |-> IncrementalRule_Evaluate(cfg.Incremental, env.count)]
    /\ UNCHANGED <<cwdErr, cfg, env, input, result, ran, executed>>

NextIncremental == IncrementalEvaluate

SpecIncremental == InitIncremental /\ [][NextIncremental]_vars

\* floor(max_files * warn_ratio), the ratio 0.7 when it is not within (0, 1)
WarnFloor(r) ==
    LET Floor(hundredths) ==
            CHOOSE w \in 0..r.MaxFiles : w * 100 <= hundredths /\ hundredths < (w + 1) * 100
    IN  Floor(r.MaxFiles * (IF r.WarnRatio <= 0 \/ r.WarnRatio >= 100 THEN 70
                            ELSE r.WarnRatio))

HookPool ==
    [lint |-> [Name |-> "lint", Tools |-> <<Write, Edit>>, Paths |-> <<<<"*", "*", "/", "*", ".", "g", "o">>>>],
     guard |-> [Name |-> "guard", Tools |-> <<Write, Bash>>, Paths |-> <<>>],
     audit |-> [Name |-> "audit", Tools |-> <<Write, Read>>,
                Paths |-> <<<<"*", ".", "m", "d">>, <<"*", "*", "/", "*", ".", "g", "o">>>>]]

\* the hooks of a configuration, in its order
HookLists == {
    <<>>,
    <<HookPool.lint>>,
    <<HookPool.lint, HookPool.guard>>,
    <<HookPool.guard, HookPool.lint>>,
    <<HookPool.lint, HookPool.guard, HookPool.audit>>,
    <<HookPool.audit, HookPool.guard, HookPool.lint>> }

\* what the child of a hook may answer
HookAnswers == {HookAllow, HookAdvise, HookDeny}

HookRequests ==
    {[ToolName |-> tool, paths |-> paths] :
        tool \in {Write, Bash, Read},
        paths \in {<<>>, <<<<"s", "r", "c", "/", "a", ".", "g", "o">>>>, <<<<"R", "E", "A", "D", "M", "E", ".", "m", "d">>>>}}

InitHooks ==
    /\ \E hooks \in HookLists, req \in HookRequests :
          \E out \in [1..Len(hooks) -> HookAnswers] :
              /\ cfg = [WorkspaceOnly([on |-> FALSE, Allow |-> <<>>, Block |-> <<>>])
                           EXCEPT !.Hooks = hooks]
              /\ env = [QuietEnv(FALSE) EXCEPT !.hookOut = out]
              /\ fn = [stage |-> "request", in |-> req, decision |-> Allow,
                       executed |-> <<>>]
    /\ cwdErr = FALSE
    /\ input = NoRequest
    /\ result = NoResult
    /\ ran = <<>>
    /\ executed = <<>>

\* Evaluator.evaluateHooks on the request
HooksEvaluate ==
    /\ fn.stage = "request"
    /\ \E o \in {evaluateHooks(cfg, fn.in, fn.in.paths)} :
          fn' = [fn EXCEPT !.stage = "decided", !.decision = o.res,
                           !.executed = o.executed]
    /\ UNCHANGED <<cwdErr, cfg, env, input, result, ran, executed>>

NextHooks == HooksEvaluate

SpecHooks == InitHooks /\ [][NextHooks]_vars

\* hook i of the configuration is for the request: it names the tool, and it
\* has no path globs or one of them matches a path of the request
HookApplies(i) ==
    /\ \E k \in 1..Len(cfg.Hooks[i].Tools) : cfg.Hooks[i].Tools[k] = fn.in.ToolName
    /\ \/ cfg.Hooks[i].Paths = <<>>
       \/ \E k \in 1..Len(cfg.Hooks[i].Paths), p \in 1..Len(fn.in.paths) :
             matchGlob(fn.in.paths[p], cfg.Hooks[i].Paths[k])

\* the hooks for the request that deny
HookDeniers == {i \in 1..Len(cfg.Hooks) : HookApplies(i) /\ ~env.hookOut[i].Allowed}

\* the hooks to execute: those for the request up to the first that denies
HooksToRun ==
    {i \in 1..Len(cfg.Hooks) : HookApplies(i) /\ \A j \in HookDeniers : i <= j}

\* the members of a set of hooks in configuration order
InOrder(S) ==
    [k \in 1..Cardinality(S) |-> CHOOSE i \in S : Cardinality({j \in S : j <= i}) = k]

\* C17: the hooks executed are those for the request, in configuration
\* order, up to and including the first that denies; with a denying hook the
\* result is deny with "<name>: <reason>" of that hook; without one it is
\* allow, warned with the non-empty warnings of the executed hooks, each
\* after its hook's name, in configuration order, joined with "; ".
HooksInOrder ==
    fn.stage = "decided" =>
        /\ fn.executed = [k \in 1..Cardinality(HooksToRun) |->
                              cfg.Hooks[InOrder(HooksToRun)[k]].Name]
        /\ IF HookDeniers # {}
           THEN \E i \in HookDeniers :
                   /\ \A j \in HookDeniers : i <= j
                   /\ fn.decision = [Allowed |-> FALSE,
                                     Reason |-> Msg(cfg.Hooks[i].Name \o ": "
                                                    \o env.hookOut[i].Reason, <<>>),
                                     Warning |-> ""]
           ELSE LET warned == {i \in HooksToRun : env.hookOut[i].Warning # ""}
                IN  /\ fn.decision.Allowed
                    /\ fn.decision.Reason = NoMsg
                    /\ fn.decision.Warning =
                           JoinText([k \in 1..Cardinality(warned) |->
                                        cfg.Hooks[InOrder(warned)[k]].Name \o ": "
                                        \o env.hookOut[InOrder(warned)[k]].Warning], "; ")

\* of three hooks the first is skipped, the second has denied and the third,
\* also for the request, has not been executed
HooksInOrderWitness ==
    /\ fn.stage = "decided"
    /\ Len(cfg.Hooks) = 3
    /\ ~HookApplies(1)
    /\ HookApplies(2) /\ ~env.hookOut[2].Allowed
    /\ HookApplies(3)
    /\ fn.executed = <<cfg.Hooks[2].Name>>
    /\ ~fn.decision.Allowed

(***************************************************************************)
(* The run of the binary in hook mode: main loads the configuration, reads *)
(* the request from standard input, has it decided and exits               *)
(***************************************************************************)

\* what standard input holds: a request, or text json.Decode rejects
MainInputs ==
    {[valid |-> TRUE, request |-> r] : r \in Requests}
        \cup {[valid |-> FALSE, request |-> NoRequest]}

\* the process before main: no exit code, nothing written
Started(loads, stdin) ==
    [pc |-> "load", loads |-> loads, stdin |-> stdin, exit |-> -1, stdout |-> <<>>,
     stderr |-> <<>>]

InitMain ==
    /\ \E t \in ToolsConfigs, w \in WorkspaceConfigs, m \in ModificationConfigs,
          loads \in BOOLEAN, stdin \in MainInputs :
            /\ cfg = MakeConfig(t, [Block |-> <<>>], w,
                                [on |-> FALSE, Allow |-> <<>>, Block |-> <<>>],
                                [on |-> FALSE, Commit |-> NoCommit,
                                 Branches |-> [Protected |-> <<>>],
                                 Operations |-> [Block |-> <<>>], Workflow |-> "",
                                 Tool |-> ""],
                                m[1], m[2], [Hooks |-> <<>>], [Reminders |-> 0])
            /\ env = MakeEnv(m[1], m[2], [out |-> <<>>], [triggered |-> <<>>], FALSE)
            /\ fn = Started(loads, stdin)
    /\ cwdErr = FALSE
    /\ input = NoRequest
    /\ result = NoResult
    /\ ran = <<>>
    /\ executed = <<>>

\* allow: the decision on standard output, exit 0
allow(f) ==
    [f EXCEPT !.pc = "exited", !.stdout = Append(@, [decision |-> "allow"]), !.exit = 0]

\* deny with the exit code of fatal
deny_AsFatal(f, reason) ==
    [f EXCEPT !.pc = "exited", !.stderr = Append(@, reason), !.exit = 1]

\* deny: the reason as a line of standard error, exit 2
deny(f, reason) ==
    [f EXCEPT !.pc = "exited", !.stderr = Append(@, reason), !.exit = 2]

\* warn: a line of standard error
warn(f, message) == [f EXCEPT !.stderr = Append(@, "warning: " \o message)]

\* fatal: the diagnostic as a line of standard error, exit 1
fatal(f, diagnostic) ==
    [f EXCEPT !.pc = "exited", !.stderr = Append(@, diagnostic), !.exit = 1]

\* main: config.Load
MainLoadConfig ==
    /\ fn.pc = "load"
    /\ fn' = IF fn.loads THEN [fn EXCEPT !.pc = "decode"]
             ELSE fatal(fn, "cannot load config")
    /\ UNCHANGED <<cwdErr, cfg, env, input, result, ran, executed>>

\* main: json.NewDecoder(os.Stdin).Decode
MainDecode ==
    /\ fn.pc = "decode"
    /\ IF fn.stdin.valid
       THEN fn' = [fn EXCEPT !.pc = "evaluate"] /\ input' = fn.stdin.request
       ELSE fn' = fatal(fn, "cannot decode input") /\ UNCHANGED input
    /\ UNCHANGED <<cwdErr, cfg, env, result, ran, executed>>

\* main: the checks on the request
MainEvaluate ==
    /\ fn.pc = "evaluate"
    /\ \E o \in {Evaluator_Evaluate(cfg, input)} :
          /\ result' = o.res
          /\ ran' = o.ran
          /\ executed' = o.executed
          /\ env' = stateAfter(cfg, env, o.ran)
    /\ fn' = [fn EXCEPT !.pc = "respond"]
    /\ UNCHANGED <<cwdErr, cfg, input>>

\* main: deny with the reason, or the warning and allow
MainRespond ==
    /\ fn.pc = "respond"
    /\ fn' = IF ~result.Allowed THEN deny(fn, result.Reason)
             ELSE IF result.Warning # "" THEN allow(warn(fn, result.Warning))
             ELSE allow(fn)
    /\ UNCHANGED <<cwdErr, cfg, env, input, result, ran, executed>>

NextMain == MainLoadConfig \/ MainDecode \/ MainEvaluate \/ MainRespond

SpecMain == InitMain /\ [][NextMain]_vars

\* the decision of the request on standard input
RequestAllowed ==
    LET Of(o) == o.res.Allowed IN Of(Evaluator_Evaluate(cfg, fn.stdin.request))

\* the reason of the denial of the request on standard input
RequestReason ==
    LET Of(o) == o.res.Reason IN Of(Evaluator_Evaluate(cfg, fn.stdin.request))

\* C18: a run has no exit code until it ends, and ends with exit 1 and a
\* diagnostic on standard error exactly when the configuration does not load
\* or the request is no valid JSON, with exit 0 and the allow decision on
\* standard output exactly when the request is allowed, and with exit 2 and
\* the reason as a line of standard error exactly when it is denied.
ExitMatchesDecision ==
    IF fn.pc # "exited" THEN fn.exit = -1 /\ fn.stdout = <<>>
    ELSE IF ~fn.loads \/ ~fn.stdin.valid
    THEN fn.exit = 1 /\ Len(fn.stderr) = 1 /\ fn.stdout = <<>>
    ELSE IF RequestAllowed
    THEN fn.exit = 0 /\ fn.stdout = <<[decision |-> "allow"]>>
    ELSE fn.exit = 2 /\ fn.stderr = <<RequestReason>> /\ fn.stdout = <<>>

\* a denied request has ended the run with exit 2
ExitMatchesDecisionWitness ==
    /\ fn.pc = "exited"
    /\ fn.loads
    /\ fn.stdin.valid
    /\ ~result.Allowed
    /\ fn.exit = 2
    /\ fn.stderr = <<result.Reason>>

(***************************************************************************)
(* The workspace rule without a working directory, under SpecWorkspace     *)
(***************************************************************************)

\* C19: when os.Getwd fails the workspace rule denies every command with a
\* non-empty candidate path, also one that workspace.allow lists.
FailsClosed ==
    (/\ fn.stage = "decided"
     /\ cwdErr
     /\ \E i \in 1..Len(fn.candidates) : fn.candidates[i] # <<>>)
        => ~fn.decision.Allowed

\* without a working directory a command whose only candidate workspace.allow
\* lists has been denied as outside the workspace
FailsClosedWitness ==
    /\ fn.stage = "decided"
    /\ cwdErr
    /\ Len(fn.candidates) = 1
    /\ \E i \in 1..Len(cfg.Workspace.Allow) :
          LET Prefix(pattern) ==
                  /\ Len(pattern) <= Len(fn.candidates[1])
                  /\ \A k \in 1..Len(pattern) : fn.candidates[1][k] = pattern[k]
          IN  Prefix(cfg.Workspace.Allow[i])
    /\ fn.decision = Deny(OutsideReason, <<>>)

(***************************************************************************)
(* The loops of an evaluation, turn by turn: the segment splitter and the  *)
(* tokenizer of evaluator.go, the tokenizer of the parser, and the hooks   *)
(* with their children                                                     *)
(***************************************************************************)

LoopCommands == {
    <<>>,
    <<"l", "s">>,
    <<"l", "s", " ", "|", " ", "d", "d">>,
    <<"a", " ", "|", "|", " ", "b", " ", "&", "&", " ", "c">>,
    <<"a", " ", "&", " ", "b", " ", ";", " ", "c">>,
    <<"e", "c", "h", "o", " ", "'", "a", "|", "b", "'", " ", "x">>,
    <<"e", "c", "h", "o", " ", "\"", "a", ";", "b">>,
    <<"e", "c", "h", "o", " ", "'", "a", "\\">>,
    <<"x", "\\">>,
    <<"e", "c", "h", "o", " ", "\"", "a", "\\", "\"", "b", "\"", " ", "|", " ", "c">>,
    <<"A", "=", "1", " ", "'", "d", "d", "'", " ", "o", "f", "=", "x">>,
    <<"a", "\t", "\"", "b", " ", "c", "\"", " ", " ", "d">>,
    <<"e", "c", "h", "o", " ", "'", "a", "\\", "'", " ", ";", " ", "d", "d">> }

\* the process at the head of one of the three string loops; i is the index
\* of the code, from 0
LoopStart(kind, cmd) ==
    [kind |-> kind, pc |-> "loop", cmd |-> cmd, i |-> 0, quote |-> "", segments |-> <<>>,
     tokens |-> <<>>, current |-> <<>>, inQuote |-> "",
     st |-> [tokens |-> <<>>, current |-> <<>>, inSingleQuote |-> FALSE,
             inDoubleQuote |-> FALSE, escaped |-> FALSE]]

\* the process at the head of the loop of evaluateHooks; matches[k] is what
\* hookMatcher.Matches answers for hook k and the request, which the loop
\* does not change
HooksStart(req, hooks) ==
    [kind |-> "hooks", pc |-> "loop", in |-> req, i |-> 1, warnings |-> <<>>,
     decision |-> Allow,
     matches |-> [k \in 1..Len(hooks) |-> HookMatches(hooks[k], req.ToolName, req.paths)]]

InitLoops ==
    /\ \/ /\ \E kind \in {"split", "tokenize", "parse"}, cmd \in LoopCommands :
                fn = LoopStart(kind, cmd)
          /\ cfg = WorkspaceOnly([on |-> FALSE, Allow |-> <<>>, Block |-> <<>>])
       \/ \E hooks \in HookLists, req \in HookRequests :
             /\ fn = HooksStart(req, hooks)
             /\ cfg = [WorkspaceOnly([on |-> FALSE, Allow |-> <<>>, Block |-> <<>>])
                          EXCEPT !.Hooks = hooks]
    /\ env = QuietEnv(FALSE)
    /\ cwdErr = FALSE
    /\ input = NoRequest
    /\ result = NoResult
    /\ ran = <<>>
    /\ executed = <<>>

\* splitCommandSegments: a turn of the outer loop, up to the inner loop when
\* the character opens a quoted string
splitTurn(f) ==
    LET ch == f.cmd[f.i + 1]
        nextIs(c) == f.i + 1 < Len(f.cmd) /\ f.cmd[f.i + 2] = c
    IN  IF ch = "|"
        THEN [f EXCEPT !.segments = Append(@, f.current), !.current = <<>>,
                       !.i = IF nextIs("|") THEN @ + 2 ELSE @ + 1]
        ELSE IF ch = "&"
        THEN IF nextIs("&")
             THEN [f EXCEPT !.segments = Append(@, f.current), !.current = <<>>,
                            !.i = @ + 2]
             ELSE [f EXCEPT !.current = Append(@, ch), !.i = @ + 1]
        ELSE IF ch = ";"
        THEN [f EXCEPT !.segments = Append(@, f.current), !.current = <<>>, !.i = @ + 1]
        ELSE IF ch = "'" \/ ch = "\""
        THEN [f EXCEPT !.quote = ch, !.current = Append(@, ch), !.i = @ + 1,
                       !.pc = "quoted"]
        ELSE [f EXCEPT !.current = Append(@, ch), !.i = @ + 1]

\* a turn of the inner loop that goes on only past a character that is no
\* backslash, or a backslash with a character after it
splitQuotedTurn_StopsAtBackslash(f) ==
    IF f.cmd[f.i + 1] = "\\"
    THEN IF f.i + 1 < Len(f.cmd)
         THEN [f EXCEPT !.current = @ \o <<f.cmd[f.i + 1], f.cmd[f.i + 2]>>, !.i = @ + 2]
         ELSE f
    ELSE [f EXCEPT !.current = Append(@, f.cmd[f.i + 1]), !.i = @ + 1]

\* splitCommandSegments: a turn of the inner loop over a quoted string
splitQuotedTurn(f) ==
    LET Second(g) ==
            IF g.i < Len(g.cmd)
            THEN [g EXCEPT !.current = Append(@, g.cmd[g.i + 1]), !.i = @ + 1]
            ELSE g
    IN  Second(IF f.cmd[f.i + 1] = "\\" /\ f.i + 1 < Len(f.cmd)
               THEN [f EXCEPT !.current = Append(@, f.cmd[f.i + 1]), !.i = @ + 1]
               ELSE f)

\* splitCommandSegments: after the inner loop, the closing quote if there is
\* one and the end of the outer turn
splitQuotedEnd(f) ==
    [f EXCEPT !.current = IF f.i < Len(f.cmd) THEN Append(@, f.cmd[f.i + 1]) ELSE @,
              !.i = @ + 1, !.pc = "loop"]

\* the tokenizer of evaluator.go: a turn of its loop
hookTokenizeTurn(f) ==
    LET ch == f.cmd[f.i + 1]
    IN  IF f.inQuote # ""
        THEN IF ch = f.inQuote THEN [f EXCEPT !.inQuote = "", !.i = @ + 1]
             ELSE [f EXCEPT !.current = Append(@, ch), !.i = @ + 1]
        ELSE IF ch = "'" \/ ch = "\"" THEN [f EXCEPT !.inQuote = ch, !.i = @ + 1]
        ELSE IF ch = " " \/ ch = "\t"
        THEN IF Len(f.current) > 0
             THEN [f EXCEPT !.tokens = Append(@, f.current), !.current = <<>>, !.i = @ + 1]
             ELSE [f EXCEPT !.i = @ + 1]
        ELSE [f EXCEPT !.current = Append(@, ch), !.i = @ + 1]

SplitTurn ==
    /\ fn.kind = "split" /\ fn.pc = "loop" /\ fn.i < Len(fn.cmd)
    /\ fn' = splitTurn(fn)
    /\ UNCHANGED <<cwdErr, cfg, env, input, result, ran, executed>>

SplitQuotedTurn ==
    /\ fn.kind = "split" /\ fn.pc = "quoted"
    /\ fn.i < Len(fn.cmd) /\ fn.cmd[fn.i + 1] # fn.quote
    /\ fn' = splitQuotedTurn(fn)
    /\ UNCHANGED <<cwdErr, cfg, env, input, result, ran, executed>>

SplitQuotedEnd ==
    /\ fn.kind = "split" /\ fn.pc = "quoted"
    /\ ~(fn.i < Len(fn.cmd) /\ fn.cmd[fn.i + 1] # fn.quote)
    /\ fn' = splitQuotedEnd(fn)
    /\ UNCHANGED <<cwdErr, cfg, env, input, result, ran, executed>>

SplitReturn ==
    /\ fn.kind = "split" /\ fn.pc = "loop" /\ ~(fn.i < Len(fn.cmd))
    /\ fn' = [fn EXCEPT !.segments = IF Len(fn.current) > 0 THEN Append(@, fn.current)
                                    ELSE @,
                        !.pc = "done"]
    /\ UNCHANGED <<cwdErr, cfg, env, input, result, ran, executed>>

TokenizeTurn ==
    /\ fn.kind = "tokenize" /\ fn.pc = "loop" /\ fn.i < Len(fn.cmd)
    /\ fn' = hookTokenizeTurn(fn)
    /\ UNCHANGED <<cwdErr, cfg, env, input, result, ran, executed>>

TokenizeReturn ==
    /\ fn.kind = "tokenize" /\ fn.pc = "loop" /\ ~(fn.i < Len(fn.cmd))
    /\ fn' = [fn EXCEPT !.tokens = IF Len(fn.current) > 0 THEN Append(@, fn.current)
                                  ELSE @,
                        !.pc = "done"]
    /\ UNCHANGED <<cwdErr, cfg, env, input, result, ran, executed>>

\* parser.tokenize: a turn of the loop over the characters of the command
ParseTurn ==
    /\ fn.kind = "parse" /\ fn.pc = "loop" /\ fn.i < Len(fn.cmd)
    /\ fn' = [fn EXCEPT !.st = tokenizeStep(@, fn.cmd[fn.i + 1]), !.i = @ + 1]
    /\ UNCHANGED <<cwdErr, cfg, env, input, result, ran, executed>>

ParseReturn ==
    /\ fn.kind = "parse" /\ fn.pc = "loop" /\ ~(fn.i < Len(fn.cmd))
    /\ fn' = [fn EXCEPT !.tokens = IF Len(fn.st.current) > 0
                                  THEN Append(fn.st.tokens, fn.st.current)
                                  ELSE fn.st.tokens,
                        !.pc = "done"]
    /\ UNCHANGED <<cwdErr, cfg, env, input, result, ran, executed>>

\* evaluateHooks: what the loop does with the result of a hook
hookResult(f, name, r) ==
    IF ~r.Allowed
    THEN [f EXCEPT !.pc = "done",
                   !.decision = [Allowed |-> FALSE,
                                 Reason |-> Msg(name \o ": " \o r.Reason, <<>>),
                                 Warning |-> ""]]
    ELSE [f EXCEPT !.pc = "loop", !.i = @ + 1,
                   !.warnings = IF r.Warning # "" THEN Append(@, name \o ": " \o r.Warning)
                                ELSE @]

\* evaluateHooks: a hook that does not match is passed over, for one that
\* matches Execute spawns the child
HookTurn ==
    /\ fn.kind = "hooks" /\ fn.pc = "loop" /\ fn.i <= Len(cfg.Hooks)
    /\ fn' = IF ~fn.matches[fn.i]
             THEN [fn EXCEPT !.i = @ + 1]
             ELSE [fn EXCEPT !.pc = "child"]
    /\ UNCHANGED <<cwdErr, cfg, env, input, result, ran, executed>>

\* the child ends and Execute returns its answer
HookChildEnds ==
    /\ fn.kind = "hooks" /\ fn.pc = "child"
    /\ \E r \in HookAnswers : fn' = hookResult(fn, cfg.Hooks[fn.i].Name, r)
    /\ UNCHANGED <<cwdErr, cfg, env, input, result, ran, executed>>

\* the child is killed at its timeout and Execute returns what on_error says
HookChildKilled ==
    /\ fn.kind = "hooks" /\ fn.pc = "child"
    /\ \E onError \in {"allow", "deny"} :
          fn' = hookResult(fn, cfg.Hooks[fn.i].Name,
                           IF onError = "deny"
                           THEN [Allowed |-> FALSE, Reason |-> "hook failed", Warning |-> ""]
                           ELSE [Allowed |-> TRUE, Reason |-> "", Warning |-> "hook failed"])
    /\ UNCHANGED <<cwdErr, cfg, env, input, result, ran, executed>>

HooksReturn ==
    /\ fn.kind = "hooks" /\ fn.pc = "loop" /\ ~(fn.i <= Len(cfg.Hooks))
    /\ fn' = [fn EXCEPT !.pc = "done",
                        !.decision = [Allowed |-> TRUE, Reason |-> NoMsg,
                                      Warning |-> JoinText(fn.warnings, "; ")]]
    /\ UNCHANGED <<cwdErr, cfg, env, input, result, ran, executed>>

NextLoops ==
    \/ SplitTurn \/ SplitQuotedTurn \/ SplitQuotedEnd \/ SplitReturn
    \/ TokenizeTurn \/ TokenizeReturn
    \/ ParseTurn \/ ParseReturn
    \/ HookTurn \/ HookChildEnds \/ HookChildKilled \/ HooksReturn

\* the process runs while it has a turn to take, and a child ends or is killed
SpecLoops == InitLoops /\ [][NextLoops]_vars /\ WF_vars(NextLoops)

\* at its return a string loop has the value of the function
LoopsCompute ==
    fn.pc = "done" =>
        CASE fn.kind = "split" -> fn.segments = splitCommandSegments(fn.cmd)
          [] fn.kind = "tokenize" -> fn.tokens = hook_tokenize(fn.cmd)
          [] fn.kind = "parse" -> fn.tokens = tokenize(fn.cmd)
          [] OTHER -> TRUE

\* C20: every loop of an evaluation comes to its return: the segment
\* splitter and both tokenizers on every command, also with a quote that is
\* not closed and a backslash at the end, and the hooks when each child ends
\* or is killed.
EvaluationTerminates == <>(fn.pc = "done")

\* the splitter has returned from a command that ends inside a quoted string
\* with a backslash
EvaluationTerminatesWitness ==
    /\ fn.kind = "split"
    /\ fn.pc = "done"
    /\ fn.quote # ""
    /\ fn.cmd # <<>>
    /\ fn.cmd[Len(fn.cmd)] = "\\"
    /\ fn.i > Len(fn.cmd)
    /\ fn.segments = <<fn.cmd>>

(***************************************************************************)
(* parser.Parse on its own                                                 *)
(***************************************************************************)

\* the most tokens of an enumerated command
ParserMaxTokens == 3

\* the tokens the enumerated commands are made of
ParserTokens == {
    <<"g", "i", "t">>,
    <<"l", "s">>,
    <<"-", "f">>,
    <<"-", "-", "o", "=", "a", "=", "b">>,
    <<".", "/", "p">>,
    <<"a", "/", "b">>,
    <<"X", "=", "1">>,
    <<"x">>,
    <<"-", "n", "=">>,
    <<"/", "e">> }

\* commands with blanks, quotes and escapes
ParserSpecials == {
    <<" ", " ", " ">>,
    <<" ", "\t", " ">>,
    <<"\"", "\"">>,
    <<"g", "i", "t", " ", " ", "x">>,
    <<" ", "l", "s", " ", "x", " ">>,
    <<"l", "s", " ", "'", "a", " ", "b", "'", " ", "-", "m", " ", "\"", "c", " ", "d", "\"">>,
    <<"X", "=", "1", " ", "X", "=", "2">>,
    <<"l", "s", " ", "\\", "-", "f", " ", "x">>,
    <<"l", "s", " ", "-", "I", "/", "e", " ", "x">> }

ParserCommands ==
    {JoinWith(ts, " ") :
         ts \in UNION {[1..n -> ParserTokens] : n \in 0..ParserMaxTokens}}
        \cup ParserSpecials

InitParser ==
    /\ \E raw \in ParserCommands :
          fn = [stage |-> "command", raw |-> raw, tokens |-> <<>>,
                cmd |-> EmptyCommand(raw)]
    /\ cfg = WorkspaceOnly([on |-> FALSE, Allow |-> <<>>, Block |-> <<>>])
    /\ env = QuietEnv(FALSE)
    /\ cwdErr = FALSE
    /\ input = NoRequest
    /\ result = NoResult
    /\ ran = <<>>
    /\ executed = <<>>

\* parser.Parse on the command, and the tokens it works on
ParserParse ==
    /\ fn.stage = "command"
    /\ fn' = [fn EXCEPT !.stage = "parsed",
                        !.tokens = tokenize(TrimSpace(fn.raw)),
                        !.cmd = Parse(fn.raw)]
    /\ UNCHANGED <<cwdErr, cfg, env, input, result, ran, executed>>

NextParser == ParserParse

SpecParser == InitParser /\ [][NextParser]_vars

\* the token is a leading environment assignment NAME=value
EnvToken(tok) == envVarSplit(tok) # 0

\* the position of the program token among the tokens, one past the end
\* when every token is an environment assignment
ProgramAt(tokens) ==
    IF \A i \in 1..Len(tokens) : EnvToken(tokens[i]) THEN Len(tokens) + 1
    ELSE CHOOSE i \in 1..Len(tokens) :
             ~EnvToken(tokens[i]) /\ \A j \in 1..(i - 1) : EnvToken(tokens[j])

KnownSubcommandPrograms ==
    {<<"g", "o">>, <<"g", "i", "t">>, <<"m", "a", "k", "e">>, <<"d", "o", "c", "k", "e", "r">>, <<"k", "u", "b", "e", "c", "t", "l">>, <<"n", "p", "m">>, <<"y", "a", "r", "n">>, <<"c", "a", "r", "g", "o">>}

\* C21: a parsed Command has a Subcommand only when its Program is one of
\* go, git, make, docker, kubectl, npm, yarn, cargo, and the Subcommand does
\* not start with "-"; after any other program the next token is no
\* subcommand (it is the first of Args unless it is a flag); an empty or
\* whitespace-only command gives empty Program, Subcommand, Args, Env, Flags.
ParsedShape ==
    fn.stage = "parsed" =>
        LET at == ProgramAt(fn.tokens)
        IN  /\ fn.cmd.Subcommand # <<>> =>
                  /\ fn.cmd.Program \in KnownSubcommandPrograms
                  /\ fn.cmd.Subcommand[1] # "-"
            /\ (at < Len(fn.tokens) /\ fn.tokens[at] \notin KnownSubcommandPrograms) =>
                  /\ fn.cmd.Subcommand = <<>>
                  /\ fn.tokens[at + 1][1] # "-" =>
                        fn.cmd.Args # <<>> /\ fn.cmd.Args[1] = fn.tokens[at + 1]
            /\ (\A i \in 1..Len(fn.raw) : IsSpace(fn.raw[i])) =>
                  /\ fn.cmd.Program = <<>>
                  /\ fn.cmd.Subcommand = <<>>
                  /\ fn.cmd.Args = <<>>
                  /\ fn.cmd.Env = <<>>
                  /\ fn.cmd.Flags = <<>>

\* "ls x -f" has been parsed: x follows a program without subcommands and is
\* the first argument, not a subcommand
ParsedShapeWitness ==
    /\ fn.stage = "parsed"
    /\ fn.raw = <<"l", "s", " ", "x", " ", "-", "f">>
    /\ fn.cmd.Program = <<"l", "s">>
    /\ fn.cmd.Subcommand = <<>>
    /\ fn.cmd.Args = <<<<"x">>>>

\* the tokens Parse's last loop goes through: those after the program and
\* the subcommand
RestTokens ==
    LET from == ProgramAt(fn.tokens) + (IF fn.cmd.Subcommand # <<>> THEN 2 ELSE 1)
    IN  SubSeq(fn.tokens, from, Len(fn.tokens))

Dash(tok) == tok[1] = "-"

HasEquals(tok) == \E k \in 1..Len(tok) : tok[k] = "="

FirstEquals(tok) ==
    CHOOSE k \in 1..Len(tok) : tok[k] = "=" /\ \A j \in 1..(k - 1) : tok[j] # "="

\* a token that begins with "." or "/" or contains "/"
PathLike(tok) == tok[1] = "." \/ \E k \in 1..Len(tok) : tok[k] = "/"

\* the flag at position i of R has no "=" and takes the token after it
Adopts(R, i) ==
    /\ Dash(R[i])
    /\ ~HasEquals(R[i])
    /\ i + 1 <= Len(R)
    /\ ~Dash(R[i + 1])
    /\ ~PathLike(R[i + 1])

\* the elements of R at the positions S, in the order of R
RECURSIVE PickFrom(_, _, _)
PickFrom(R, S, i) ==
    IF i > Len(R) THEN <<>>
    ELSE (IF i \in S THEN <<R[i]>> ELSE <<>>) \o PickFrom(R, S, i + 1)

\* C22: in the flags and args loop of Parse a token that begins with "-" and
\* contains "=" is split at its first "=" into key and value and takes no
\* further token; one without "=" takes the following token as its value
\* exactly when that token exists, does not begin with "-", "." or "/" and
\* contains no "/", and has the empty value otherwise; the other tokens are
\* the Args in order, so a path-like token is never a flag's value and is
\* among the Args.
FlagValues ==
    (fn.stage = "parsed" /\ fn.cmd.Program # <<>>) =>
        LET Holds(R) ==
                LET KeyOf(i) ==
                        IF HasEquals(R[i]) THEN SubSeq(R[i], 1, FirstEquals(R[i]) - 1)
                        ELSE R[i]
                    ValueOf(i) ==
                        IF HasEquals(R[i])
                        THEN SubSeq(R[i], FirstEquals(R[i]) + 1, Len(R[i]))
                        ELSE IF Adopts(R, i) THEN R[i + 1] ELSE <<>>
                    flagsAt == {i \in 1..Len(R) : Dash(R[i])}
                    adopted == {i \in 2..Len(R) : Adopts(R, i - 1)}
                    argsAt == {i \in 1..Len(R) : ~Dash(R[i]) /\ i \notin adopted}
                    LastWith(key) ==
                        CHOOSE i \in flagsAt :
                            /\ KeyOf(i) = key
                            /\ \A j \in flagsAt : KeyOf(j) = key => j <= i
                IN  /\ fn.cmd.Args = PickFrom(R, argsAt, 1)
                    /\ {fn.cmd.Flags[k][1] : k \in 1..Len(fn.cmd.Flags)}
                           = {KeyOf(i) : i \in flagsAt}
                    /\ \A k \in 1..Len(fn.cmd.Flags) :
                          fn.cmd.Flags[k][2] = ValueOf(LastWith(fn.cmd.Flags[k][1]))
                    /\ \A i \in 1..Len(R) :
                          (~Dash(R[i]) /\ PathLike(R[i])) =>
                              \E a \in 1..Len(fn.cmd.Args) : fn.cmd.Args[a] = R[i]
        IN  Holds(RestTokens)

\* the orders in which the n entries of a Go map can be written out
Orders(n) == {p \in [1..n -> 1..n] : \A i, j \in 1..n : p[i] = p[j] => i = j}

\* the ways to write the flags out as tokens: a flag as key=value, as key
\* and value, or as the key alone when it has no value
RECURSIVE FlagRenderings(_)
FlagRenderings(flags) ==
    IF flags = <<>> THEN {<<>>}
    ELSE LET key == flags[1][1]
             value == flags[1][2]
             one == IF value = <<>> THEN {<<key>>, <<key \o <<"=">>>>}
                    ELSE {<<key \o <<"=">> \o value>>, <<key, value>>}
         IN  {h \o r : h \in one, r \in FlagRenderings(Tail(flags))}

\* C23: the Env assignments, the Program, the Subcommand, the Args and the
\* Flags of a parsed Command, written one after the other, are the tokens of
\* the command in their order (the entries of Env and of Flags in some order
\* of the map, a flag in some way of writing it): no token is lost,
\* duplicated or moved.
RoundTrip ==
    fn.stage = "parsed" =>
        LET c == fn.cmd
            Word(w) == IF w = <<>> THEN <<>> ELSE <<w>>
            EnvTokens(p) ==
                [i \in 1..Len(c.Env) |-> c.Env[p[i]][1] \o <<"=">> \o c.Env[p[i]][2]]
            Ordered(p) == [i \in 1..Len(c.Flags) |-> c.Flags[p[i]]]
        IN  \E pe \in Orders(Len(c.Env)), pf \in Orders(Len(c.Flags)) :
                \E r \in FlagRenderings(Ordered(pf)) :
                    fn.tokens = EnvTokens(pe) \o Word(c.Program) \o Word(c.Subcommand)
                                    \o c.Args \o r

(***************************************************************************)
(* The two matchers on their own: matchPath of the workspace rule and      *)
(* matchGlob of the scope rule, each applied to a path and a pattern       *)
(***************************************************************************)

\* the longest path enumerated for the matchers
MatcherMaxLen == 4

MatcherAlphabet == {"/", ".", "a", "b"}

\* paths of the documentation and the tests
MatcherExamples == {
    <<".", "e", "n", "v">>,
    <<".", "/", ".", "e", "n", "v">>,
    <<"s", "e", "c", "r", "e", "t", "s", "/", "k", "e", "y">>,
    <<"s", "e", "c", "r", "e", "t", "s", "/", "/", "k", "e", "y">>,
    <<"s", "e", "c", "r", "e", "t", "s", "/", ".", "/", "k", "e", "y">>,
    <<"v", "e", "n", "d", "o", "r", "2", "/", "x", ".", "g", "o">>,
    <<"v", "e", "n", "d", "o", "r", "/", "x", ".", "g", "o">>,
    <<"v", "e", "n", "d", "o", "r">>,
    <<"s", "r", "c", "f", "o", "o", "/", "a", ".", "g", "o">>,
    <<"s", "r", "c", "/", "a", ".", "g", "o">>,
    <<"s", "r", "c", "/", "x", "/", "a", ".", "g", "o">>,
    <<"f", "i", "l", "e", ".", "g", "o">>,
    <<"s", "r", "c", "/", "a", ".", "g", "o", "t">>,
    <<"/", "h", "/", ".", "s", "s", "h", "/", "i", "d">>,
    <<"/", "h", "/", ".", "s", "s", "h", "/", "/", "i", "d">> }

MatcherPaths ==
    UNION {[1..n -> MatcherAlphabet] : n \in 0..MatcherMaxLen} \cup MatcherExamples

MatcherPatterns == {
    <<"a">>,
    <<"a", "/">>,
    <<"a", "/", "b">>,
    <<"/", "a">>,
    <<"a", "/", "*", "*">>,
    <<"*", "*", "/", "b">>,
    <<"a", "/", "*", "*", "/", "b">>,
    <<"*">>,
    <<"a", "*">>,
    <<"*", "*">>,
    <<"a", "/", "*", "*", "/", "b", "/", "*", "*">>,
    <<".", "a">>,
    <<".", "e", "n", "v">>,
    <<"s", "e", "c", "r", "e", "t", "s", "/", "k", "e", "y">>,
    <<"s", "e", "c", "r", "e", "t", "s", "/">>,
    <<"v", "e", "n", "d", "o", "r", "/", "*", "*">>,
    <<"s", "r", "c", "/", "*", "*", "/", "*", ".", "g", "o">>,
    <<"*", "*", "/", "*", ".", "g", "o">>,
    <<"*", ".", "g", "o">>,
    <<"~", "/", ".", "s", "s", "h", "/">> }

InitMatchers ==
    /\ \E p \in MatcherPaths, pattern \in MatcherPatterns :
          fn = [path |-> p, pattern |-> pattern,
                prefixDone |-> FALSE, prefix |-> FALSE, prefixClean |-> FALSE,
                globDone |-> FALSE, glob |-> FALSE, globClean |-> FALSE]
    /\ cfg = WorkspaceOnly([on |-> FALSE, Allow |-> <<>>, Block |-> <<>>])
    /\ env = QuietEnv(FALSE)
    /\ cwdErr = FALSE
    /\ input = NoRequest
    /\ result = NoResult
    /\ ran = <<>>
    /\ executed = <<>>

\* matchPath on the path as given and on its cleaned form
ApplyMatchPath ==
    /\ ~fn.prefixDone
    /\ fn' = [fn EXCEPT !.prefixDone = TRUE,
                        !.prefix = matchPath(fn.path, fn.pattern),
                        !.prefixClean = matchPath(Clean(fn.path), fn.pattern)]
    /\ UNCHANGED <<cwdErr, cfg, env, input, result, ran, executed>>

\* matchGlob on the path as given and on its cleaned form
ApplyMatchGlob ==
    /\ ~fn.globDone
    /\ fn' = [fn EXCEPT !.globDone = TRUE,
                        !.glob = matchGlob(fn.path, fn.pattern),
                        !.globClean = matchGlob(Clean(fn.path), fn.pattern)]
    /\ UNCHANGED <<cwdErr, cfg, env, input, result, ran, executed>>

NextMatchers == ApplyMatchPath \/ ApplyMatchGlob

SpecMatchers == InitMatchers /\ [][NextMatchers]_vars

\* C24: matching depends only on normalized forms: a path and its cleaned
\* form (redundant separators collapsed, "." components resolved), hence any
\* two paths with the same cleaned form, get the same answer from matchPath
\* and the same answer from matchGlob, whatever the pattern.
NormalizedForms ==
    /\ fn.prefixDone => fn.prefix = fn.prefixClean
    /\ fn.globDone => fn.glob = fn.globClean

\* the positions at which "**" stands in the pattern
DoubleStars(pattern) ==
    {k \in 1..(Len(pattern) - 1) : pattern[k] = "*" /\ pattern[k + 1] = "*"}

\* the ends of the text rest that start at a component boundary: at its
\* start or after one of its separators
ComponentEnds(rest) ==
    {SubSeq(rest, b, Len(rest)) :
         b \in {1} \cup {k + 1 : k \in {j \in 1..Len(rest) : rest[j] = "/"}}}

\* C25: in the glob matcher (on the cleaned path and pattern) a pattern with
\* more than one "**" matches no path; a pattern with one "**" matches when
\* the part before "**" is a prefix of the path and the part after it (its
\* leading separator aside) is empty or matches the rest of the path from
\* some component boundary on, so "**/*.go" matches "file.go"; and it
\* matches only when the part before "**" (its trailing separator aside)
\* starts the path and the part after matches some end of the path; a
\* pattern without "**" matches when it matches the whole path or, having no
\* separator, the base name of the path, and not otherwise.
DoubleStarMatching ==
    fn.globDone =>
        LET Holds(path, pattern) ==
                LET stars == DoubleStars(pattern)
                    k == CHOOSE j \in stars : TRUE
                    before == SubSeq(pattern, 1, k - 1)
                    after == TrimPrefix(SubSeq(pattern, k + 2, Len(pattern)), <<"/">>)
                IN  /\ Cardinality(stars) > 1 => ~fn.glob
                    /\ Cardinality(stars) = 1 =>
                          /\ (/\ HasPrefix(path, before)
                              /\ \/ after = <<>>
                                 \/ \E e \in ComponentEnds(
                                                 SubSeq(path, Len(before) + 1, Len(path))) :
                                        Match(after, e))
                                => fn.glob
                          /\ fn.glob =>
                                /\ HasPrefix(path, TrimSuffix(before, <<"/">>))
                                /\ \/ after = <<>>
                                   \/ \E j \in 1..(Len(path) + 1) :
                                          Match(after, SubSeq(path, j, Len(path)))
                    /\ stars = {} =>
                          (fn.glob <=>
                               \/ Match(pattern, path)
                               \/ /\ \A j \in 1..Len(pattern) : pattern[j] # "/"
                                  /\ Match(pattern, Base(path)))
        IN  Holds(Clean(fn.path), Clean(fn.pattern))

\* "**/*.go" has matched "file.go": the "**" stands for the empty run
DoubleStarMatchingWitness ==
    /\ fn.globDone
    /\ fn.pattern = <<"*", "*", "/", "*", ".", "g", "o">>
    /\ fn.path = <<"f", "i", "l", "e", ".", "g", "o">>
    /\ fn.glob

\* C28: a glob pattern D/** or D/**/S matches only paths that are D itself
\* or lie under the directory D (D followed by a separator); a path whose
\* first component only begins with the text D does not match.
DirectoryGlob ==
    fn.globDone =>
        LET Holds(path, pattern) ==
                LET stars == DoubleStars(pattern)
                    k == CHOOSE j \in stars : TRUE
                    D == SubSeq(pattern, 1, k - 2)
                IN  (/\ Cardinality(stars) = 1
                     /\ k >= 3
                     /\ pattern[k - 1] = "/"
                     /\ fn.glob)
                        => (path = D \/ HasPrefix(path, D \o <<"/">>))
        IN  Holds(Clean(fn.path), Clean(fn.pattern))

(***************************************************************************)
(* What the workspace rule accepts, under SpecWorkspace                    *)
(***************************************************************************)

\* the cleaned absolute form of p is the allow entry or lies below it
BelowEntry(p, entry) ==
    LET Below(abs, dir) ==
            abs = dir \/ dir = <<"/">> \/ HasPrefix(abs, dir \o <<"/">>)
    IN  Below(AbsoluteForm(p),
              AbsoluteForm(IF HasPrefix(entry, <<"~", "/">>)
                           THEN HomeDir \o <<"/">> \o SubSeq(entry, 3, Len(entry))
                           ELSE entry))

\* C26: whenever the workspace rule accepts a command, the cleaned absolute
\* form of each of its candidate paths is inside the project root or is
\* equal to or below a workspace.allow entry; a path that starts in an
\* allowed directory and leaves it through ".." is not accepted.
AcceptedInside ==
    (fn.stage = "decided" /\ fn.decision.Allowed) =>
        \A i \in 1..Len(fn.candidates) :
            \/ InsideRoot(fn.candidates[i])
            \/ \E a \in 1..Len(cfg.Workspace.Allow) :
                   BelowEntry(fn.candidates[i], cfg.Workspace.Allow[a])

(***************************************************************************)
(* What of a command the workspace rule gets to see, under SpecWorkspace   *)
(***************************************************************************)

\* the strings of a command that can name a path: the values of the leading
\* environment assignments and, after the program token, every token that
\* is no flag and the value of every flag written as key=value
PathBearing(tokens) ==
    LET at == ProgramAt(tokens)
        Value(tok) == SubSeq(tok, FirstEquals(tok) + 1, Len(tok))
    IN  {Value(tokens[i]) : i \in 1..(at - 1)}
            \cup {tokens[i] : i \in {j \in (at + 1)..Len(tokens) : ~Dash(tokens[j])}}
            \cup {Value(tokens[i]) :
                      i \in {j \in (at + 1)..Len(tokens) :
                                 Dash(tokens[j]) /\ HasEquals(tokens[j])}}

\* C27: every environment value and every token after the program other
\* than a flag key goes through the protected-path and workspace checks: the
\* working directory being known, a command one of whose path-bearing
\* strings the checks refuse is denied, also when the string stands in the
\* subcommand position or when its flag key or environment name occurs
\* again with another value.
PathsSubmitted ==
    (fn.stage = "decided" /\ ~cwdErr) =>
        \A x \in PathBearing(tokenize(TrimSpace(fn.raw))) :
            (x # <<>> /\ ~PathVerdict(cfg.Workspace, x).Allowed)
                => ~fn.decision.Allowed

(***************************************************************************)
(* The reminder state across Evaluator.Evaluate, under Spec                *)
(***************************************************************************)

\* C29: a call of Evaluate that returns an allowed result, with reminders
\* configured, increments the task counter by one and saves the state once,
\* on every allow path; a call that returns a denial, and every call with no
\* reminders configured, leaves the reminder state as it was.
ReminderAccounting ==
    [][IF result'.Allowed /\ cfg.Reminders # 0
       THEN env' = [env EXCEPT !.taskCount = env.taskCount + 1,
                               !.saves = env.saves + 1]
       ELSE env' = env]_vars

\* a Write allowed with the warning of the incremental rule has counted one
\* task and saved once
ReminderAccountingWitness ==
    /\ Decided
    /\ cfg.Reminders # 0
    /\ result.Allowed
    /\ "incremental" \in Range(ran)
    /\ "invariants" \notin Range(ran)
    /\ env.taskCount = 1
    /\ env.saves = 1

(***************************************************************************)
(* The incremental rule with nothing modified, under SpecIncremental       *)
(***************************************************************************)

\* C30: the incremental rule warns only about files that are modified: for
\* every max_files > 0 and every warn_ratio a count of 0 gives an allow
\* without warning and without reason, and a warning is given only when
\* 1 <= count < max_files.
SilentWithoutChanges ==
    (fn.stage = "decided" /\ cfg.Incremental.MaxFiles > 0) =>
        /\ env.count = 0 => fn.decision = Allow
        /\ fn.decision.Warning # "" =>
              (1 <= env.count /\ env.count < cfg.Incremental.MaxFiles)

====
